---- MODULE Spec2Model ----
(***************************************************************************)
(* RepoPulse: webhook receiver, pull-request store, pr-summary queue and   *)
(* Summary Worker, modelled from the TypeScript sources.                   *)
(*                                                                         *)
(* Strings that the code inspects character by character (file names,      *)
(* patches, signature headers) are sequences of one-character strings.     *)
(* Every await of a handler is a step boundary: other requests and other   *)
(* job attempts may run between two steps.                                 *)
(***************************************************************************)
EXTENDS Integers, Sequences, FiniteSets, TLC

\* a nullable value is a sequence of length at most one
None == <<>>
Some(x) == <<x>>

Min(a, b) == IF a < b THEN a ELSE b

Range(s) == {s[i] : i \in 1..Len(s)}

\* Array.prototype.includes on an array
SeqIncludes(s, x) == \E i \in 1..Len(s) : s[i] = x

\* Set.prototype.add followed by [...set]: insertion order, no duplicates
SetAdd(s, x) == IF SeqIncludes(s, x) THEN s ELSE Append(s, x)

(***************************************************************************)
(* Character strings                                                       *)
(***************************************************************************)
UpperChars == <<"A","B","C","D","E","F","G","H","I","J","K","L","M",
                "N","O","P","Q","R","S","T","U","V","W","X","Y","Z">>
LowerChars == <<"a","b","c","d","e","f","g","h","i","j","k","l","m",
                "n","o","p","q","r","s","t","u","v","w","x","y","z">>
DigitChars == {"0","1","2","3","4","5","6","7","8","9"}
SpaceChars == {" ", "\t", "\n"}

\* String.prototype.toLowerCase, one character
LowerChar(c) ==
  IF \E i \in 1..26 : UpperChars[i] = c
  THEN LowerChars[CHOOSE i \in 1..26 : UpperChars[i] = c]
  ELSE c

UpperChar(c) ==
  IF \E i \in 1..26 : LowerChars[i] = c
  THEN UpperChars[CHOOSE i \in 1..26 : LowerChars[i] = c]
  ELSE c

toLowerCase(s) == [i \in 1..Len(s) |-> LowerChar(s[i])]

\* String.prototype.startsWith
startsWith(s, p) == Len(p) <= Len(s) /\ SubSeq(s, 1, Len(p)) = p

\* String.prototype.includes
includes(s, p) ==
  \E i \in 1..(Len(s) - Len(p) + 1) : SubSeq(s, i, i + Len(p) - 1) = p

\* String.prototype.slice(0, n), on the length of a message
SliceLen(len, n) == Min(len, n)

(***************************************************************************)
(* Regular expressions of SECRET_PATTERNS: a pattern is a sequence of      *)
(* items [cls, min, max], each matching min..max characters of class cls.  *)
(***************************************************************************)
Lit(p)  == [i \in 1..Len(p) |-> [cls |-> {p[i]}, min |-> 1, max |-> 1, open |-> FALSE]]
LitI(p) == [i \in 1..Len(p) |->
              [cls |-> {LowerChar(p[i]), UpperChar(p[i])}, min |-> 1, max |-> 1,
               open |-> FALSE]]
\* X{lo,hi}
Rep(cls, lo, hi) == << [cls |-> cls, min |-> lo, max |-> hi, open |-> FALSE] >>
\* X{lo,} and X*
RepFrom(cls, lo) == << [cls |-> cls, min |-> lo, max |-> lo, open |-> TRUE] >>

RECURSIVE MatchHere(_, _, _, _)
MatchHere(s, i, pat, k) ==
  IF k > Len(pat) THEN TRUE
  ELSE LET e == pat[k]
           hi == IF e.open THEN Len(s) - i + 1 ELSE Min(e.max, Len(s) - i + 1)
       IN \E n \in e.min..hi :
            /\ \A j \in 0..(n - 1) : s[i + j] \in e.cls
            /\ MatchHere(s, i + n, pat, k + 1)

\* RegExp.prototype.test (unanchored)
RegexTest(pat, s) == \E i \in 1..(Len(s) + 1) : MatchHere(s, i, pat, 1)

AlnumUpper == DigitChars \cup Range(UpperChars)
Alnum      == AlnumUpper \cup Range(LowerChars)

SECRET_PATTERNS ==
  << Lit(<<"A","K","I","A">>) \o Rep(AlnumUpper, 16, 16),
     Lit(<<"g","h","p","_">>) \o Rep(Alnum, 36, 36),
     Lit(<<"x","o","x">>) \o Rep({"b","a","p","r","s"}, 1, 1) \o Lit(<<"-">>)
        \o RepFrom(Alnum \cup {"-"}, 20),
     LitI(<<"s","e","c","r","e","t","_","k","e","y">>) \o RepFrom(SpaceChars, 0)
        \o Lit(<<"=">>),
     LitI(<<"a","p","i","_","k","e","y">>) \o RepFrom(SpaceChars, 0)
        \o Lit(<<"=">>),
     LitI(<<"p","a","s","s","w","o","r","d">>) \o RepFrom(SpaceChars, 0)
        \o Lit(<<"=">>),
     Lit(<<"-","-","-","-","-","B","E","G","I","N"," ","P","R","I","V","A","T","E",
           " ","K","E","Y","-","-","-","-","-">>) >>

containsSecrets(diffChunk) ==
  \E r \in 1..Len(SECRET_PATTERNS) : RegexTest(SECRET_PATTERNS[r], diffChunk)

(***************************************************************************)
(* Deterministic analyzer                                                  *)
(***************************************************************************)
IsAuthName(f) ==
  \/ includes(f, <<"a","u","t","h">>)
  \/ includes(f, <<"l","o","g","i","n">>)
  \/ includes(f, <<"j","w","t">>)

IsConfigName(f) ==
  \/ includes(f, <<"c","o","n","f","i","g">>)
  \/ includes(f, <<".","e","n","v">>)
  \/ includes(f, <<"s","e","t","t","i","n","g","s">>)

IsCiCdName(f) ==
  \/ includes(f, <<".","g","i","t","h","u","b","/","w","o","r","k","f","l","o","w","s">>)
  \/ includes(f, <<"d","e","p","l","o","y">>)
  \/ includes(f, <<"p","i","p","e","l","i","n","e">>)
  \/ includes(f, <<"i","n","f","r","a">>)

IsBackendName(f) ==
  \/ startsWith(f, <<"s","e","r","v","e","r","/">>)
  \/ startsWith(f, <<"s","r","c","/","r","o","u","t","e","s","/">>)
  \/ includes(f, <<"a","p","i","/">>)

IsFrontendName(f) ==
  \/ startsWith(f, <<"c","l","i","e","n","t","/">>)
  \/ startsWith(f, <<"s","r","c","/","c","o","m","p","o","n","e","n","t","s","/">>)
  \/ includes(f, <<"f","r","o","n","t","e","n","d">>)

IsRoutesName(f) == includes(f, <<"r","o","u","t","e","s">>)

CondAdd(s, cond, x) == IF cond THEN SetAdd(s, x) ELSE s

\* the labels one file adds, in the order of the if-statements
LabelsOfFile(labels, file) ==
  LET f  == toLowerCase(file.filename)
      l1 == CondAdd(labels, IsBackendName(f), "backend")
      l2 == CondAdd(l1, IsFrontendName(f), "frontend")
      l3 == CondAdd(l2, IsRoutesName(f), "routes")
      l4 == CondAdd(l3, IsConfigName(f), "config")
      l5 == CondAdd(l4, IsCiCdName(f), "devops")
  IN CondAdd(l5, IsAuthName(f), "security")

RECURSIVE LabelsLoop(_, _, _)
LabelsLoop(files, i, labels) ==
  IF i > Len(files) THEN labels
  ELSE LabelsLoop(files, i + 1, LabelsOfFile(labels, files[i]))

deriveSystemLabels(files) == LabelsLoop(files, 1, <<>>)

RECURSIVE SumField(_, _, _)
SumField(files, i, fld) ==
  IF i > Len(files) THEN 0
  ELSE (IF fld = "additions" THEN files[i].additions ELSE files[i].deletions)
       + SumField(files, i + 1, fld)

AreaFlagsOfFile(flags, file) ==
  LET f  == toLowerCase(file.filename)
      r1 == CondAdd(flags, IsAuthName(f), "auth-change")
      r2 == CondAdd(r1, IsConfigName(f), "config-change")
  IN CondAdd(r2, IsCiCdName(f), "ci-cd-change")

RECURSIVE AreaFlagsLoop(_, _, _)
AreaFlagsLoop(files, i, flags) ==
  IF i > Len(files) THEN flags
  ELSE AreaFlagsLoop(files, i + 1, AreaFlagsOfFile(flags, files[i]))

AnySecret(files) ==
  \E i \in 1..Len(files) :
     files[i].patch # <<>> /\ containsSecrets(files[i].patch)

Weight(flags, flag, w) == IF SeqIncludes(flags, flag) THEN w ELSE 0

\* variant: the weighted sum is not capped
RiskScoreUncapped(flags) ==
  Weight(flags, "large-diff", 20) + Weight(flags, "very-large-diff", 20)
  + Weight(flags, "secrets-suspected", 40) + Weight(flags, "auth-change", 20)
  + Weight(flags, "config-change", 15) + Weight(flags, "ci-cd-change", 15)

RiskScoreOf(flags) ==
  LET raw == Weight(flags, "large-diff", 20) + Weight(flags, "very-large-diff", 20)
             + Weight(flags, "secrets-suspected", 40) + Weight(flags, "auth-change", 20)
             + Weight(flags, "config-change", 15) + Weight(flags, "ci-cd-change", 15)
  IN IF raw > 100 THEN 100 ELSE raw

\* variant: the diff flags are raised from 500 and from 1500 changed lines on
analyzeFlagsFromThreshold(filesChanged) ==
  LET totalAdditions == SumField(filesChanged, 1, "additions")
      totalDeletions == SumField(filesChanged, 1, "deletions")
      totalChanges   == totalAdditions + totalDeletions
      secret == AnySecret(filesChanged)
      f1 == CondAdd(<<>>, totalChanges >= 500, "large-diff")
      f2 == CondAdd(f1, totalChanges >= 1500, "very-large-diff")
      f3 == CondAdd(f2, secret, "secrets-suspected")
      riskFlags == AreaFlagsLoop(filesChanged, 1, f3)
      systemLabels == CondAdd(deriveSystemLabels(filesChanged), secret, "security")
  IN [ systemLabels |-> systemLabels,
       riskFlags    |-> riskFlags,
       riskScore    |-> RiskScoreOf(riskFlags),
       diffStats    |-> [ totalAdditions |-> totalAdditions,
                          totalDeletions |-> totalDeletions,
                          changedFilesCount |-> Len(filesChanged) ] ]

\* variant: a suspected secret adds the flag but not the label
analyzeWithoutSecurityLabel(filesChanged) ==
  LET totalAdditions == SumField(filesChanged, 1, "additions")
      totalDeletions == SumField(filesChanged, 1, "deletions")
      totalChanges   == totalAdditions + totalDeletions
      secret == AnySecret(filesChanged)
      f1 == CondAdd(<<>>, totalChanges > 500, "large-diff")
      f2 == CondAdd(f1, totalChanges > 1500, "very-large-diff")
      f3 == CondAdd(f2, secret, "secrets-suspected")
      riskFlags == AreaFlagsLoop(filesChanged, 1, f3)
  IN [ systemLabels |-> deriveSystemLabels(filesChanged),
       riskFlags    |-> riskFlags,
       riskScore    |-> RiskScoreOf(riskFlags),
       diffStats    |-> [ totalAdditions    |-> totalAdditions,
                          totalDeletions    |-> totalDeletions,
                          changedFilesCount |-> Len(filesChanged) ] ]

analyzePullRequestDeterministic(filesChanged) ==
  LET totalAdditions == SumField(filesChanged, 1, "additions")
      totalDeletions == SumField(filesChanged, 1, "deletions")
      totalChanges   == totalAdditions + totalDeletions
      secret == AnySecret(filesChanged)
      f1 == CondAdd(<<>>, totalChanges > 500, "large-diff")
      f2 == CondAdd(f1, totalChanges > 1500, "very-large-diff")
      f3 == CondAdd(f2, secret, "secrets-suspected")
      riskFlags == AreaFlagsLoop(filesChanged, 1, f3)
      systemLabels == CondAdd(deriveSystemLabels(filesChanged), secret, "security")
  IN [ systemLabels |-> systemLabels,
       riskFlags    |-> riskFlags,
       riskScore    |-> RiskScoreOf(riskFlags),
       diffStats    |-> [ totalAdditions    |-> totalAdditions,
                          totalDeletions    |-> totalDeletions,
                          changedFilesCount |-> Len(filesChanged) ] ]

(***************************************************************************)
(* Files the platform can return for a pull request.  A missing or empty   *)
(* patch is the empty sequence (the code skips both).                      *)
(***************************************************************************)
FileParser ==
  [ filename  |-> <<"s","r","c","/","p",".","t","s">>,
    additions |-> 10, deletions |-> 2, patch |-> <<>> ]

FileAuth ==
  [ filename  |-> <<"A","u","t","h",".","t","s">>,
    additions |-> 5, deletions |-> 1,
    patch |-> <<"P","a","s","s","w","o","r","d"," "," ","=","x">> ]

FileAwsEnv ==
  [ filename  |-> <<"c","o","n","f","i","g","/","a","w","s",".","e","n","v">>,
    additions |-> 3, deletions |-> 0,
    patch |-> <<"A","K","I","A","A","B","C","D","E","F","G","H","I","J","K","L","M",
                "N","O","P">> ]

FileBigApi ==
  [ filename  |-> <<"s","e","r","v","e","r","/","r","o","u","t","e","s","/","a","p","i",
                    ".","t","s">>,
    additions |-> 1600, deletions |-> 50, patch |-> <<>> ]

FileDeploy ==
  [ filename  |-> <<".","g","i","t","h","u","b","/","w","o","r","k","f","l","o","w","s",
                    "/","d","e","p","l","o","y",".","y","m","l">>,
    additions |-> 300, deletions |-> 201, patch |-> <<"a","k","i","a","1">> ]

FileLogin ==
  [ filename  |-> <<"c","l","i","e","n","t","/","L","o","g","i","n",".","t","s","x">>,
    additions |-> 250, deletions |-> 250, patch |-> <<>> ]

FileDocs ==
  [ filename  |-> <<"d","o","c","s","/","u","s","a","g","e",".","m","d">>,
    additions |-> 499, deletions |-> 0, patch |-> <<>> ]

FileNote ==
  [ filename  |-> <<"N","O","T","E","S">>,
    additions |-> 0, deletions |-> 1, patch |-> <<>> ]

\* file lists by index; 1 has no label and no flag, 2 scores 60 with a secret,
\* 3 scores 55 with a secret, 9 scores 60 without a secret; 10 to 13 change
\* 500, 501, 1500 and 1501 lines
FileLists ==
  << << FileParser >>,
     << FileAuth >>,
     << FileAwsEnv >>,
     << FileBigApi >>,
     << FileDeploy, FileLogin >>,
     << FileAwsEnv, FileAuth, FileBigApi, FileDeploy >>,
     << >>,
     << FileLogin, FileParser >>,
     << FileBigApi, FileLogin >>,
     << FileLogin >>,
     << FileDeploy >>,
     << FileDeploy, FileLogin, FileDocs >>,
     << FileDeploy, FileLogin, FileDocs, FileNote >> >>

\* analysis of every file list of the catalogue (evaluated once)
AnalysisOf == [i \in 1..Len(FileLists) |-> analyzePullRequestDeterministic(FileLists[i])]


(***************************************************************************)
(* Webhook signature                                                       *)
(***************************************************************************)
HexChars == <<"0","1","2","3","4","5","6","7","8","9","a","b","c","d","e","f">>

\* values process.env.GITHUB_WEBHOOK_SECRET can have; <<>> is unset or empty
Secrets == { <<>>, <<"k","1">>, <<"k","2">> }

KeyChars == <<"k","1","2">>

RECURSIVE KeyCode(_, _)
KeyCode(secret, i) ==
  IF i > Len(secret) THEN 0
  ELSE (CHOOSE c \in 1..Len(KeyChars) : KeyChars[c] = secret[i]) + 4 * KeyCode(secret, i + 1)

\* crypto.createHmac('sha256', secret).update(payload).digest('hex'): a keyed
\* digest of the body, written in hexadecimal.  The model keeps two hex
\* digits; the digest is defined for the empty key too.
HmacSha256Hex(secret, body) ==
  LET d == (16 * KeyCode(secret, 1) + ((7 * body) % 16)) % 256
  IN << HexChars[(d \div 16) + 1], HexChars[(d % 16) + 1] >>

SigPrefix == <<"s","h","a","2","5","6","=">>

\* variant: compares the common prefix instead of throwing on a length mismatch
timingSafeEqualPrefix(a, b) ==
  IF \A i \in 1..Min(Len(a), Len(b)) : a[i] = b[i] THEN "true" ELSE "false"

\* crypto.timingSafeEqual: throws on buffers of different length
timingSafeEqual(a, b) ==
  IF Len(a) # Len(b) THEN "throw"
  ELSE IF \A i \in 1..Len(a) : a[i] = b[i] THEN "true" ELSE "false"

\* variant: the digest is compared without its 'sha256=' prefix
verifySignatureNoPrefix(sec, payload, signature) ==
  IF sec = <<>> THEN TRUE
  ELSE timingSafeEqual(signature, HmacSha256Hex(sec, payload)) = "true"

verifySignature(sec, payload, signature) ==
  IF sec = <<>> THEN TRUE
  ELSE LET digest == SigPrefix \o HmacSha256Hex(sec, payload)
       IN timingSafeEqual(signature, digest) = "true"

(***************************************************************************)
(* Webhook bodies.  A body is an index of Events; JSON.parse of the body   *)
(* gives the record.                                                       *)
(***************************************************************************)
Ev(event, action, inst, title, state, merged) ==
  [ event |-> event, action |-> action, installation |-> inst,
    repoId |-> "12345", repoFullName |-> "acme/widgets", number |-> 7,
    title |-> title, author |-> "alice", headRef |-> "fix", baseRef |-> "main",
    state |-> state, merged |-> merged,
    accountType |-> "User", accountLogin |-> "alice",
    repositories |-> << [repoId |-> "12345", repoFullName |-> "acme/widgets"] >> ]

Events ==
  << Ev("pull_request", "opened", 1, "Fix header parsing", "open", FALSE),
     Ev("pull_request", "synchronize", 1, "Fix header parsing v2", "open", FALSE),
     Ev("pull_request", "closed", 1, "Fix header parsing", "closed", TRUE),
     Ev("pull_request", "reopened", 1, "Fix header parsing", "open", FALSE),
     Ev("pull_request", "edited", 2, "Fix header parsing v3", "open", FALSE),
     Ev("installation", "created", 1, "", "", FALSE),
     Ev("installation", "deleted", 1, "", "", FALSE),
     Ev("installation_repositories", "added", 1, "", "", FALSE),
     Ev("installation_repositories", "removed", 1, "", "", FALSE),
     Ev("ping", "", 1, "", "", FALSE),
     Ev("issues", "opened", 1, "", "", FALSE),
     Ev("malformed", "", 1, "", "", FALSE),
     Ev("pull_request", "labeled", 1, "Fix header parsing", "open", FALSE),
     Ev("pull_request", "closed", 1, "Fix header parsing", "closed", FALSE),
     [Ev("pull_request", "opened", 1, "Add footer", "open", FALSE) EXCEPT !.number = 8],
     [Ev("installation", "created", 2, "", "", FALSE)
        EXCEPT !.accountType = "Organization", !.accountLogin = "acme"],
     [Ev("installation", "created", 3, "", "", FALSE) EXCEPT !.accountLogin = "bob"],
     [Ev("pull_request", "edited", 1, "Fix header parsing (edited)", "open", FALSE)
        EXCEPT !.baseRef = "develop"],
     [Ev("installation_repositories", "added", 1, "", "", FALSE)
        EXCEPT !.repositories = << [repoId |-> "67890", repoFullName |-> "acme/gadgets"] >>],
     [Ev("installation_repositories", "removed", 1, "", "", FALSE)
        EXCEPT !.repositories = << [repoId |-> "67890", repoFullName |-> "acme/gadgets"] >>] >>

(***************************************************************************)
(* Bounds                                                                  *)
(***************************************************************************)
\* webhook deliveries in one run
MaxDeliveries == 2
\* jobs ever added to the pr-summary queue in one run
MaxJobs == 2
\* attempts the platform may fail by refusing fetchPRData in one run
MaxFetchFailures == 1
\* calls of getPRFiles in one run
MaxTokenCalls == 3
MaxApiCalls == 2

\* defaultJobOptions.attempts of the pr-summary queue
JobAttempts == 3
\* slice(0, 500) of the error message
MaxErrorLen == 500
\* attempts of a pr-notify-slack job
SlackJobAttempts == 3
\* parseNumber(process.env.SLACK_RISK_THRESHOLD, 60)
DefaultRiskThreshold == 60

(***************************************************************************)
(* State                                                                   *)
(***************************************************************************)
VARIABLES
  secret,         \* process.env.GITHUB_WEBHOOK_SECRET || ''
  slackConfig,    \* [enabled, webhookUrl, riskThreshold]
  prs,            \* PullRequest collection; _id is the position
  installations,  \* Installation collection
  users,          \* User collection
  reqs,           \* webhook requests being handled
  delivered,      \* number of deliveries received
  responses,      \* the responses sent: [ev, sig, status]
  jobs,           \* pr-summary queue: every job with its state
  slackJobs,      \* pr-notify-slack queue
  tokenCalls,     \* calls of getPRFiles with the token request each one sends
  apiCalls,       \* API requests being handled: regenerate, app setup, PR listing and detail
  analysis        \* memo of the analyzer: its output for every file list of FileLists

vars == << secret, slackConfig, prs, installations, users, reqs, delivered, responses,
          jobs, slackJobs, tokenCalls, apiCalls, analysis >>


(***************************************************************************)
(* PullRequest documents                                                   *)
(***************************************************************************)
ZeroDiffStats == [totalAdditions |-> 0, totalDeletions |-> 0, changedFilesCount |-> 0]

\* a new document: the given fields plus the schema defaults
NewPR(e, userId, status, files) ==
  [ installationId |-> e.installation, userId |-> userId,
    repoId |-> e.repoId, repoFullName |-> e.repoFullName, number |-> e.number,
    title |-> e.title, author |-> e.author,
    branchFrom |-> e.headRef, branchTo |-> e.baseRef,
    status |-> status, filesChanged |-> files,
    summary |-> None, summaryStatus |-> "pending", summaryError |-> None,
    lastSummarizedAt |-> None,
    systemLabels |-> <<>>, riskFlags |-> <<>>, riskScore |-> 0,
    diffStats |-> ZeroDiffStats, slackMessageTs |-> None, v |-> 0 ]

\* pullRequestSchema.index({ repoId: 1, number: 1 }, { unique: true }):
\* an insert of a second document with the same key is refused
\* variant: the collection has no unique index on (repoId, number)
NoUniqueIndex(docs, repoId, number) == TRUE

\* the unique index { repoId: 1, number: 1 }: an insert with a taken key fails
UniqueKeyFree(docs, repoId, number) ==
  \A i \in 1..Len(docs) : ~(docs[i].repoId = repoId /\ docs[i].number = number)

\* variant: the existence read matches no stored document
FindNoMatch(docs, inst, repoId, number) == 0

\* findOne({ installationId, repoId, number }): position of the match, 0 if none
FindByInstRepoNumber(docs, inst, repoId, number) ==
  LET m == {i \in 1..Len(docs) : /\ docs[i].installationId = inst
                                 /\ docs[i].repoId = repoId
                                 /\ docs[i].number = number}
  IN IF m = {} THEN 0 ELSE CHOOSE i \in m : \A k \in m : i <= k

\* findOneAndUpdate({ repoId, number }, ...): position of the match, 0 if none
FindByRepoNumber(docs, repoId, number) ==
  LET m == {i \in 1..Len(docs) : docs[i].repoId = repoId /\ docs[i].number = number}
  IN IF m = {} THEN 0 ELSE CHOOSE i \in m : \A k \in m : i <= k

\* User.find({ installationIds: id }) and the choice of the user to link
LinkedUser(us, inst, author) ==
  LET withInst == {u \in 1..Len(us) : SeqIncludes(us[u].installationIds, inst)}
      byAuthor == {u \in withInst : us[u].username = author}
  IN IF Cardinality(withInst) = 1 THEN Some(CHOOSE u \in withInst : TRUE)
     ELSE IF Cardinality(withInst) > 1 /\ byAuthor # {}
          THEN Some(CHOOSE u \in byAuthor : \A k \in byAuthor : u <= k)
          ELSE None

(***************************************************************************)
(* document.save(): Mongoose sends the paths whose value differs from the  *)
(* loaded one.  When an array path is among them the update is conditioned *)
(* on the loaded version (__v) and increments it; a document whose version *)
(* has moved makes save() throw VersionError and nothing is written.       *)
(***************************************************************************)
WorkerPaths == { "summary", "summaryStatus", "summaryError", "lastSummarizedAt",
                 "systemLabels", "riskFlags", "riskScore", "diffStats" }

ArrayPaths == { "systemLabels", "riskFlags" }

ModifiedPaths(orig, local) == {f \in WorkerPaths : local[f] # orig[f]}

SaveOk(db, orig, local) ==
  (ModifiedPaths(orig, local) \cap ArrayPaths # {}) => db.v = orig.v

\* variant: the save writes the whole document the attempt holds
SaveWholeDoc(db, orig, local) ==
  [f \in DOMAIN db |->
     IF f = "v" THEN (IF ModifiedPaths(orig, local) \cap ArrayPaths # {} THEN db.v + 1 ELSE db.v)
     ELSE local[f]]

\* document.save(): the update holds the modified paths only
SaveDoc(db, orig, local) ==
  LET m == ModifiedPaths(orig, local)
  IN [f \in DOMAIN db |->
        IF f \in m THEN local[f]
        ELSE IF f = "v" /\ m \cap ArrayPaths # {} THEN db.v + 1
        ELSE db[f]]

(***************************************************************************)
(* Outcomes of the external services                                       *)
(***************************************************************************)
\* file lists the platform returns to the Summary Worker (indices of FileLists)
PlatformFiles == {1, 2}
\* file lists getPRFiles returns to the webhook handlers
HandlerFiles == {1}
\* filesChanged when the file fetch failed: files = []
NoFiles == 7

\* generatePrSummaryWithGemini: what the model returns ...
LLMOutputs == { [tldr |-> "Parser fix.", risks |-> <<>>, labels |-> <<"backend">>] }
\* ... or the message of the error it throws, with its length
LLMErrors == { [text |-> "Failed to parse Gemini JSON: ...", len |-> 731] }
\* process.env.SLACK_WEBHOOK_URL when it is set
WebhookUrl == "https://hooks.slack.example/T0/B0"

\* message of a failed platform call, with its length: a short one and one
\* that carries the body of the response
FetchErrors == { [text |-> "Not Found", len |-> 9],
                 [text |-> "Bad Gateway: <html> ...", len |-> 612] }

\* String(message).slice(0, 500)
SliceMessage(err) ==
  [text |-> err.text, len |-> SliceLen(err.len, MaxErrorLen)]

(***************************************************************************)
(* Initial states                                                          *)
(***************************************************************************)
InitUsers ==
  << [username |-> "alice", installationIds |-> <<>>],
     [username |-> "bob",   installationIds |-> <<>>] >>

InitStore ==
  /\ prs = <<>>
  /\ installations = <<>>
  /\ users = InitUsers
  /\ reqs = <<>>
  /\ delivered = 0
  /\ responses = {}
  /\ jobs = <<>>
  /\ slackJobs = <<>>
  /\ tokenCalls = <<>>
  /\ apiCalls = <<>>
  /\ analysis = AnalysisOf

Init ==
  /\ secret = <<"k","1">>
  /\ slackConfig = [enabled |-> TRUE, webhookUrl |-> Some(WebhookUrl),
                    riskThreshold |-> DefaultRiskThreshold]
  /\ InitStore

(***************************************************************************)
(* Webhook router: router.post('/github')                                  *)
(***************************************************************************)
\* first step of the handler the router calls; "done" when it answers itself
Route(e) ==
  LET ev == Events[e].event
      ac == Events[e].action
  IN CASE ev = "installation" /\ ac = "created" -> "inst.created"
       [] ev = "installation" /\ ac = "deleted" -> "inst.deleted"
       [] ev = "installation_repositories" /\ ac = "added" -> "repos.added"
       [] ev = "installation_repositories" /\ ac = "removed" -> "repos.removed"
       [] ev = "pull_request" /\ ac = "opened" -> "opened.find"
       [] ev = "pull_request" /\ ac \in {"synchronize", "edited"} -> "sync.files"
       [] ev = "pull_request" /\ ac = "closed" -> "closed"
       [] ev = "pull_request" /\ ac = "reopened" -> "reopened"
       [] OTHER -> "done"

\* status the router answers before any handler runs; 0 when a handler runs
RouterStatus(sec, e, sig) ==
  IF sig = None \/ sig = Some(<<>>) THEN 401
  ELSE IF ~verifySignature(sec, e, sig[1]) THEN 401
  ELSE IF Events[e].event = "malformed" THEN 500
  ELSE IF Route(e) = "done" THEN 200
  ELSE 0

\* a request handed to a handler: pc is the handler's next step
NewReq(e, sig) ==
  [ ev |-> e, sig |-> sig, pc |-> Route(e), files |-> NoFiles, userId |-> None,
    existing |-> FALSE, prId |-> 0 ]

Response(e, sig, st) == [ev |-> e, sig |-> sig, status |-> st]

\* delivery of body e with signature header sig, at most max deliveries in a
\* run: the router answers, or a handler takes the request
Receive(e, sig, max) ==
  /\ delivered < max
  /\ delivered' = delivered + 1
  /\ LET st == RouterStatus(secret, e, sig)
     IN IF st = 0
        THEN /\ reqs' = Append(reqs, NewReq(e, sig))
             /\ responses' = responses
        ELSE /\ reqs' = reqs
             /\ responses' = responses \cup {Response(e, sig, st)}
  /\ UNCHANGED << analysis, tokenCalls, apiCalls, secret, slackConfig, prs, installations, users, jobs, slackJobs >>

Remove(s, r) == SubSeq(s, 1, r - 1) \o SubSeq(s, r + 1, Len(s))

\* the handler of request r sends its response: the request is over
Answer(r, st) ==
  /\ reqs' = Remove(reqs, r)
  /\ responses' = responses \cup {Response(reqs[r].ev, reqs[r].sig, st)}

\* the handler of request r goes on as q
Step(r, q) ==
  /\ reqs' = [reqs EXCEPT ![r] = q]
  /\ responses' = responses

\* prSummaryQueue.add('generate', ...) for document id; by is the webhook
\* action that added it; llm and outcome record how the last attempt went:
\* the result of the model call, and how the attempt ended
GenerateJob(by, id) ==
  [ name |-> "generate", prId |-> id, by |-> by, state |-> "waiting",
    attemptsMade |-> 0, pc |-> "idle", loaded |-> None, files |-> NoFiles,
    llm |-> "none", outcome |-> "none" ]

(***************************************************************************)
(* handlePROpened                                                          *)
(***************************************************************************)
\* the existence read; for a new PR, getPRFiles (a failure is caught: files
\* stay []) and the user lookup, which write nothing
OpenedFind(r) ==
  /\ reqs[r].pc = "opened.find"
  /\ LET e == Events[reqs[r].ev]
         x == FindByInstRepoNumber(prs, e.installation, e.repoId, e.number)
     IN IF x # 0
        THEN Answer(r, 200)
        ELSE \E fl \in HandlerFiles \cup {NoFiles} :
               Step(r, [reqs[r] EXCEPT !.pc = "opened.create", !.files = fl,
                          !.userId = LinkedUser(users, e.installation, e.author)])
  /\ UNCHANGED << analysis, tokenCalls, apiCalls, delivered, secret, slackConfig, prs, installations, users, jobs, slackJobs >>

\* PullRequest.create: a duplicate key makes it throw, the handler answers 500
OpenedCreate(r) ==
  /\ reqs[r].pc = "opened.create"
  /\ LET e == Events[reqs[r].ev]
     IN IF UniqueKeyFree(prs, e.repoId, e.number)
        THEN /\ prs' = Append(prs, NewPR(e, reqs[r].userId, "open", reqs[r].files))
             /\ Step(r, [reqs[r] EXCEPT !.pc = "opened.enqueue", !.prId = Len(prs) + 1])
        ELSE /\ prs' = prs
             /\ Answer(r, 500)
  /\ UNCHANGED << analysis, tokenCalls, apiCalls, delivered, secret, slackConfig, installations, users, jobs, slackJobs >>

\* prSummaryQueue.add, then 200
OpenedEnqueue(r) ==
  /\ reqs[r].pc = "opened.enqueue"
  /\ Len(jobs) < MaxJobs
  /\ jobs' = Append(jobs, GenerateJob(Events[reqs[r].ev].action, reqs[r].prId))
  /\ Answer(r, 200)
  /\ UNCHANGED << analysis, tokenCalls, apiCalls, delivered, secret, slackConfig, prs, installations, users, slackJobs >>

(***************************************************************************)
(* handlePRSynchronized (synchronize and edited)                           *)
(***************************************************************************)
\* getPRFiles is not in a try/catch here: a failure answers 500
\* (a failed getPRFiles writes nothing before the 500); then the existence
\* read and, for a new PR, the user lookup
SyncFind(r) ==
  /\ reqs[r].pc = "sync.files"
  /\ \/ \E fl \in HandlerFiles :
          LET e == Events[reqs[r].ev]
              x == FindByInstRepoNumber(prs, e.installation, e.repoId, e.number)
          IN Step(r, [reqs[r] EXCEPT !.pc = "sync.upsert", !.files = fl,
                        !.existing = (x # 0),
                        !.userId = IF x = 0
                                      THEN LinkedUser(users, e.installation, e.author)
                                      ELSE None])
     \/ Answer(r, 500)
  /\ UNCHANGED << analysis, tokenCalls, apiCalls, delivered, secret, slackConfig, prs, installations, users, jobs, slackJobs >>

\* variant: the fields of $setOnInsert are written on an update too
SyncSetWithInsertFields(doc, e, files) ==
  [doc EXCEPT !.title = e.title, !.author = e.author, !.branchFrom = e.headRef,
              !.branchTo = e.baseRef, !.status = e.state, !.filesChanged = files,
              !.summary = None, !.summaryStatus = "pending", !.summaryError = None,
              !.lastSummarizedAt = None]

\* $set of the upsert
SyncSet(doc, e, files) ==
  [doc EXCEPT !.title = e.title, !.author = e.author, !.branchFrom = e.headRef,
              !.branchTo = e.baseRef, !.status = e.state, !.filesChanged = files]

\* findOneAndUpdate(filter, { $set, $setOnInsert }, { upsert: true, new: true })
SyncUpsert(r) ==
  /\ reqs[r].pc = "sync.upsert"
  /\ LET e == Events[reqs[r].ev]
         x == FindByInstRepoNumber(prs, e.installation, e.repoId, e.number)
         wasNew == ~reqs[r].existing
     IN IF x # 0
        THEN /\ prs' = [prs EXCEPT ![x] = SyncSet(prs[x], e, reqs[r].files)]
             /\ IF wasNew \/ prs[x].summaryStatus = "pending"
                THEN Step(r, [reqs[r] EXCEPT !.pc = "sync.enqueue", !.prId = x])
                ELSE Answer(r, 200)
        ELSE IF UniqueKeyFree(prs, e.repoId, e.number)
        THEN /\ prs' = Append(prs, NewPR(e, reqs[r].userId, e.state, reqs[r].files))
             /\ Step(r, [reqs[r] EXCEPT !.pc = "sync.enqueue", !.prId = Len(prs) + 1])
        ELSE /\ prs' = prs
             /\ Answer(r, 500)
  /\ UNCHANGED << analysis, tokenCalls, apiCalls, delivered, secret, slackConfig, installations, users, jobs, slackJobs >>

SyncEnqueue(r) ==
  /\ reqs[r].pc = "sync.enqueue"
  /\ Len(jobs) < MaxJobs
  /\ jobs' = Append(jobs, GenerateJob(Events[reqs[r].ev].action, reqs[r].prId))
  /\ Answer(r, 200)
  /\ UNCHANGED << analysis, tokenCalls, apiCalls, delivered, secret, slackConfig, prs, installations, users, slackJobs >>

(***************************************************************************)
(* handlePRClosed, handlePRReopened                                        *)
(***************************************************************************)
PRClosed(r) ==
  /\ reqs[r].pc = "closed"
  /\ LET e == Events[reqs[r].ev]
         x == FindByRepoNumber(prs, e.repoId, e.number)
     IN IF x = 0
        THEN /\ prs' = prs
             /\ Answer(r, 404)
        ELSE /\ prs' = [prs EXCEPT ![x].status = IF e.merged THEN "merged" ELSE "closed"]
             /\ Answer(r, 200)
  /\ UNCHANGED << analysis, tokenCalls, apiCalls, delivered, secret, slackConfig, installations, users, jobs, slackJobs >>

ReopenedSet(doc) ==
  [doc EXCEPT !.status = "open", !.summaryStatus = "pending", !.summaryError = None]

PRReopened(r) ==
  /\ reqs[r].pc = "reopened"
  /\ LET e == Events[reqs[r].ev]
         x == FindByRepoNumber(prs, e.repoId, e.number)
     IN IF x = 0
        THEN /\ prs' = prs
             /\ Answer(r, 404)
        ELSE /\ prs' = [prs EXCEPT ![x] = ReopenedSet(prs[x])]
             /\ Step(r, [reqs[r] EXCEPT !.pc = "reopened.enqueue", !.prId = x])
  /\ UNCHANGED << analysis, tokenCalls, apiCalls, delivered, secret, slackConfig, installations, users, jobs, slackJobs >>

ReopenedEnqueue(r) ==
  /\ reqs[r].pc = "reopened.enqueue"
  /\ Len(jobs) < MaxJobs
  /\ jobs' = Append(jobs, GenerateJob(Events[reqs[r].ev].action, reqs[r].prId))
  /\ Answer(r, 200)
  /\ UNCHANGED << analysis, tokenCalls, apiCalls, delivered, secret, slackConfig, prs, installations, users, slackJobs >>

\* prSummaryQueue.add throws in a pull_request handler: the catch logs it
\* and the handler answers 200; no job exists for the stored PR
EnqueueErrorCaught(r) ==
  /\ reqs[r].pc \in {"opened.enqueue", "sync.enqueue", "reopened.enqueue"}
  /\ Answer(r, 200)
  /\ UNCHANGED << analysis, tokenCalls, apiCalls, delivered, secret, slackConfig, prs, installations, users, jobs, slackJobs >>

(***************************************************************************)
(* Installation webhooks                                                   *)
(***************************************************************************)
\* variant: the lookup by installationId never matches
FindInstallationNone(insts, id) == 0

FindInstallation(insts, id) ==
  LET m == {i \in 1..Len(insts) : insts[i].installationId = id}
  IN IF m = {} THEN 0 ELSE CHOOSE i \in m : \A k \in m : i <= k

\* members the platform lists for an organization account
OrgMemberLists == { <<>>, <<"alice", "bob">> }

\* user.installationIds.push(id) unless it is already included
LinkUser(u, id) ==
  IF SeqIncludes(u.installationIds, id) THEN u
  ELSE [u EXCEPT !.installationIds = Append(@, id)]

\* syncOrgMembersToInstallation: link every user whose username is a member
SyncOrgMembers(us, id, members) ==
  [u \in 1..Len(us) |->
     IF SeqIncludes(members, us[u].username) THEN LinkUser(us[u], id) ELSE us[u]]

\* the existence read: an installation that is already stored is left alone
handleInstallationCreated(r) ==
  /\ reqs[r].pc = "inst.created"
  /\ IF FindInstallation(installations, Events[reqs[r].ev].installation) # 0
     THEN Answer(r, 200)
     ELSE Step(r, [reqs[r] EXCEPT !.pc = "inst.create"])
  /\ UNCHANGED << analysis, tokenCalls, apiCalls, delivered, secret, slackConfig, prs, installations,
                  users, jobs, slackJobs >>

\* Installation.create; the unique index on installationId refuses a second
\* document, and the handler answers 500
InstallationCreate(r) ==
  /\ reqs[r].pc = "inst.create"
  /\ LET e == Events[reqs[r].ev]
     IN IF FindInstallation(installations, e.installation) # 0
        THEN /\ installations' = installations
             /\ Answer(r, 500)
        ELSE /\ installations' =
                  Append(installations,
                         [ installationId |-> e.installation,
                           accountType |-> e.accountType,
                           accountLogin |-> e.accountLogin,
                           repositories |-> e.repositories,
                           suspendedAt |-> FALSE ])
             /\ Step(r, [reqs[r] EXCEPT !.pc = "inst.link"])
  /\ UNCHANGED << analysis, tokenCalls, apiCalls, delivered, secret, slackConfig, prs, users, jobs,
                  slackJobs >>

\* Organization: syncOrgMembersToInstallation, whose saves are taken
\* together; User: the user whose username is the account login is read
InstallationLink(r) ==
  /\ reqs[r].pc = "inst.link"
  /\ LET e == Events[reqs[r].ev]
         m == {u \in 1..Len(users) : users[u].username = e.accountLogin}
     IN IF e.accountType = "Organization"
        THEN /\ \E members \in OrgMemberLists :
                  users' = SyncOrgMembers(users, e.installation, members)
             /\ Answer(r, 200)
        ELSE /\ users' = users
             /\ IF m = {} THEN Answer(r, 200)
                ELSE LET first == CHOOSE u \in m : \A k \in m : u <= k
                     IN IF SeqIncludes(users[first].installationIds, e.installation)
                        THEN Answer(r, 200)
                        ELSE Step(r, [reqs[r] EXCEPT !.pc = "inst.save",
                                                     !.userId = Some(first)])
  /\ UNCHANGED << analysis, tokenCalls, apiCalls, delivered, secret, slackConfig, prs, installations,
                  jobs, slackJobs >>

\* user.installationIds.push(id); user.save(): the id is pushed onto the
\* stored array
InstallationLinkSave(r) ==
  /\ reqs[r].pc = "inst.save"
  /\ users' = [users EXCEPT ![reqs[r].userId[1]].installationIds =
                               Append(@, Events[reqs[r].ev].installation)]
  /\ Answer(r, 200)
  /\ UNCHANGED << analysis, tokenCalls, apiCalls, delivered, secret, slackConfig, prs, installations,
                  jobs, slackJobs >>

\* $pull: every occurrence of the id is removed
Pull(ids, id) == SelectSeq(ids, LAMBDA x : x # id)

\* findOneAndUpdate({installationId}, {suspendedAt: new Date()}), no upsert
handleInstallationDeleted(r) ==
  /\ reqs[r].pc = "inst.deleted"
  /\ LET e == Events[reqs[r].ev]
         x == FindInstallation(installations, e.installation)
     IN installations' = IF x = 0 THEN installations
                         ELSE [installations EXCEPT ![x].suspendedAt = TRUE]
  /\ Step(r, [reqs[r] EXCEPT !.pc = "inst.pull"])
  /\ UNCHANGED << analysis, tokenCalls, apiCalls, delivered, secret, slackConfig, prs, users, jobs,
                  slackJobs >>

\* User.updateMany with $pull, then the response
InstallationPull(r) ==
  /\ reqs[r].pc = "inst.pull"
  /\ users' = [u \in 1..Len(users) |->
                 [users[u] EXCEPT !.installationIds =
                                     Pull(@, Events[reqs[r].ev].installation)]]
  /\ Answer(r, 200)
  /\ UNCHANGED << analysis, tokenCalls, apiCalls, delivered, secret, slackConfig, prs, installations,
                  jobs, slackJobs >>

handleInstallationRepositoriesAdded(r) ==
  /\ reqs[r].pc = "repos.added"
  /\ LET e == Events[reqs[r].ev]
         x == FindInstallation(installations, e.installation)
     IN IF x = 0
        THEN /\ installations' = installations
             /\ Answer(r, 404)
        ELSE /\ installations' =
                  [installations EXCEPT ![x].repositories = @ \o e.repositories]
             /\ Answer(r, 200)
  /\ UNCHANGED << analysis, tokenCalls, apiCalls, delivered, secret, slackConfig, prs, users, jobs, slackJobs >>

handleInstallationRepositoriesRemoved(r) ==
  /\ reqs[r].pc = "repos.removed"
  /\ LET e == Events[reqs[r].ev]
         x == FindInstallation(installations, e.installation)
         removedRepoIds == {e.repositories[k].repoId : k \in 1..Len(e.repositories)}
     IN IF x = 0
        THEN /\ installations' = installations
             /\ Answer(r, 404)
        ELSE /\ installations' =
                  [installations EXCEPT ![x].repositories =
                      SelectSeq(@, LAMBDA repo : repo.repoId \notin removedRepoIds)]
             /\ Answer(r, 200)
  /\ UNCHANGED << analysis, tokenCalls, apiCalls, delivered, secret, slackConfig, prs, users, jobs, slackJobs >>

(***************************************************************************)
(* pr-summary queue and Summary Worker                                     *)
(***************************************************************************)
\* variant: a job that throws always goes back to the queue
ThrowAlwaysRetried(j) ==
  [jobs EXCEPT ![j].attemptsMade = @ + 1, ![j].state = "waiting",
               ![j].pc = "idle", ![j].loaded = None, ![j].files = NoFiles]

\* an attempt that throws: retried until attempts (3) are used up
Throw(j) ==
  [jobs EXCEPT ![j].attemptsMade = @ + 1,
               ![j].state = IF jobs[j].attemptsMade + 1 >= JobAttempts
                            THEN "failed" ELSE "waiting",
               ![j].pc = "idle", ![j].loaded = None, ![j].files = NoFiles]

Complete(j) ==
  [jobs EXCEPT ![j].state = "completed", ![j].pc = "idle", ![j].loaded = None,
               ![j].files = NoFiles]

RECURSIVE ThrownAttempts(_, _)
ThrownAttempts(js, i) ==
  IF i > Len(js) THEN 0 ELSE js[i].attemptsMade + ThrownAttempts(js, i + 1)

\* new Date() taken by the current attempt of job j
Stamp(j) == << j, jobs[j].attemptsMade + 1 >>

\* variant: the dedup check ignores the job name
SkipsWorkAnyName(name, pr) ==
  pr.summaryStatus = "ready" /\ pr.summary # None

\* variant: no dedup check
SkipsWorkNever(name, pr) == FALSE

\* the dedup check of the processor
SkipsWork(name, pr) ==
  name # "regenerate" /\ pr.summaryStatus = "ready" /\ pr.summary # None

\* a producer outside the webhook handlers adds a 'regenerate' job for a stored PR
AddRegenerate(id) ==
  /\ id \in 1..Len(prs)
  /\ Len(jobs) < MaxJobs
  /\ jobs' = Append(jobs, [GenerateJob("none", id) EXCEPT !.name = "regenerate"])
  /\ UNCHANGED << analysis, tokenCalls, apiCalls, secret, slackConfig, prs, installations, users, reqs, delivered, responses, slackJobs >>

\* the job becomes active: findById, wasSummaryReady, dedup check; then
\* fetchPRData, which touches no store: it returns one of platformFiles or
\* throws, in at most maxFailures attempts of a run
WorkerLoad(j, platformFiles, maxFailures) ==
  /\ jobs[j].state = "waiting"
  /\ IF jobs[j].prId \notin 1..Len(prs)
     THEN jobs' = [Throw(j) EXCEPT ![j].outcome = "not-found", ![j].llm = "none"]
     ELSE LET pr == prs[jobs[j].prId]
          IN IF SkipsWork(jobs[j].name, pr)
             THEN jobs' = [Complete(j) EXCEPT ![j].outcome = "skipped", ![j].llm = "none"]
             ELSE \/ \E fl \in platformFiles :
                       jobs' = [jobs EXCEPT ![j].state = "active", ![j].pc = "llm",
                                           ![j].loaded = Some(pr), ![j].files = fl,
                                           ![j].outcome = "none", ![j].llm = "none"]
                  \/ /\ ThrownAttempts(jobs, 1) < maxFailures
                     /\ jobs' = [jobs EXCEPT ![j].state = "active",
                                  ![j].pc = "fetch-failed",
                                  ![j].loaded = Some(pr), ![j].outcome = "none",
                                  ![j].llm = "none"]
  /\ UNCHANGED << analysis, tokenCalls, apiCalls, secret, slackConfig, prs, installations, users, reqs, delivered, responses, slackJobs >>

\* the outer catch: status error, message, lastSummarizedAt
OuterCatchDoc(doc, err, stamp) ==
  [doc EXCEPT !.summaryStatus = "error", !.summaryError = Some(SliceMessage(err)),
              !.lastSummarizedAt = Some(stamp)]

\* fetchPRData threw: the outer catch saves the error and rethrows
WorkerFetchFailed(j) ==
  /\ jobs[j].state = "active" /\ jobs[j].pc = "fetch-failed"
  /\ \E err \in FetchErrors :
       LET id == jobs[j].prId
           orig == jobs[j].loaded[1]
           local == OuterCatchDoc(orig, err, Stamp(j))
       IN /\ prs' = IF SaveOk(prs[id], orig, local)
                    THEN [prs EXCEPT ![id] = SaveDoc(prs[id], orig, local)]
                    ELSE prs
          /\ jobs' = [Throw(j) EXCEPT ![j].outcome = "fetch-failed"]
  /\ UNCHANGED << analysis, tokenCalls, apiCalls, secret, slackConfig, installations, users, reqs, delivered, responses, slackJobs >>

\* the analysis fields written on the in-memory document
WithAnalysis(doc, fl) ==
  [doc EXCEPT !.systemLabels = analysis[fl].systemLabels,
              !.riskFlags = analysis[fl].riskFlags,
              !.riskScore = analysis[fl].riskScore,
              !.diffStats = analysis[fl].diffStats]

\* variant: the success path marks the PR ready without storing the summary
ReadyDocNoSummary(doc, out, stamp) ==
  [doc EXCEPT !.summaryStatus = "ready", !.summaryError = None,
              !.lastSummarizedAt = Some(stamp)]

\* the success path of the model call
ReadyDoc(doc, out, stamp) ==
  [doc EXCEPT !.summary = Some([tldr |-> out.tldr, risks |-> out.risks,
                                labels |-> out.labels, createdAt |-> stamp]),
              !.summaryStatus = "ready", !.summaryError = None,
              !.lastSummarizedAt = Some(stamp)]

\* the catch of the model call
ErrorDoc(doc, err) ==
  [doc EXCEPT !.summaryStatus = "error", !.summaryError = Some(SliceMessage(err))]

\* analysis, model call and the single save; a save that throws leaves the
\* document untouched and the exception reaches the queue
WorkerLLM(j) ==
  /\ jobs[j].state = "active" /\ jobs[j].pc = "llm"
  /\ LET id == jobs[j].prId
         orig == jobs[j].loaded[1]
         analysed == WithAnalysis(orig, jobs[j].files)
     IN \/ \E out \in LLMOutputs :
             LET local == ReadyDoc(analysed, out, Stamp(j))
             IN IF SaveOk(prs[id], orig, local)
                THEN /\ prs' = [prs EXCEPT ![id] = SaveDoc(prs[id], orig, local)]
                     /\ jobs' = [jobs EXCEPT ![j].pc = "notify", ![j].llm = "ok",
                                               ![j].outcome = "saved"]
                ELSE /\ prs' = prs
                     /\ jobs' = [Throw(j) EXCEPT ![j].llm = "ok",
                                                 ![j].outcome = "save-threw"]
        \/ \E err \in LLMErrors :
             LET local == ErrorDoc(analysed, err)
             IN IF SaveOk(prs[id], orig, local)
                THEN /\ prs' = [prs EXCEPT ![id] = SaveDoc(prs[id], orig, local)]
                     /\ jobs' = [jobs EXCEPT ![j].pc = "notify", ![j].llm = "failed",
                                               ![j].outcome = "saved"]
                ELSE /\ prs' = prs
                     /\ jobs' = [Throw(j) EXCEPT ![j].llm = "failed",
                                                 ![j].outcome = "save-threw"]
  /\ UNCHANGED << analysis, tokenCalls, apiCalls, secret, slackConfig, installations, users, reqs, delivered, responses, slackJobs >>

\* variant: the risk score has to exceed the threshold
ShouldNotifySlackAbove(cfg, wasSummaryReady, updatedPr) ==
  LET becameReadyNow == ~wasSummaryReady /\ updatedPr.summaryStatus = "ready"
      isHighRisk     == updatedPr.riskScore > cfg.riskThreshold
      hasSecretsFlag == SeqIncludes(updatedPr.riskFlags, "secrets-suspected")
  IN cfg.enabled /\ (becameReadyNow \/ isHighRisk \/ hasSecretsFlag)

\* shouldNotifySlack, on the reloaded document
ShouldNotifySlack(cfg, wasSummaryReady, updatedPr) ==
  LET becameReadyNow == ~wasSummaryReady /\ updatedPr.summaryStatus = "ready"
      isHighRisk     == updatedPr.riskScore >= cfg.riskThreshold
      hasSecretsFlag == SeqIncludes(updatedPr.riskFlags, "secrets-suspected")
  IN cfg.enabled /\ (becameReadyNow \/ isHighRisk \/ hasSecretsFlag)

SlackJob(id, updatedPr) ==
  [ pullRequestId |-> id, number |-> updatedPr.number, title |-> updatedPr.title,
    tldr |-> IF updatedPr.summary # None THEN updatedPr.summary[1].tldr
             ELSE "No summary available",
    riskScore |-> updatedPr.riskScore, mainRiskFlags |-> updatedPr.riskFlags,
    systemLabels |-> updatedPr.systemLabels, state |-> "waiting",
    attemptsMade |-> 0, posts |-> 0, result |-> "none" ]

\* reload, notification decision, slackNotifyQueue.add; the job completes
WorkerNotify(j) ==
  /\ jobs[j].state = "active" /\ jobs[j].pc = "notify"
  /\ LET id == jobs[j].prId
         updatedPr == prs[id]
         wasSummaryReady == jobs[j].loaded[1].summaryStatus = "ready"
     IN IF ShouldNotifySlack(slackConfig, wasSummaryReady, updatedPr)
        THEN /\ slackJobs' = Append(slackJobs, SlackJob(id, updatedPr))
             /\ jobs' = Complete(j)
        ELSE /\ slackJobs' = slackJobs
             /\ jobs' = Complete(j)
  /\ UNCHANGED << analysis, tokenCalls, apiCalls, secret, slackConfig, prs, installations, users, reqs, delivered, responses >>

\* variant: the error of slackNotifyQueue.add is rethrown, and fails the attempt
SlackEnqueueErrorRethrown(j) == Throw(j)

\* catch (slackError): the error is logged and the processor returns
SlackEnqueueErrorCaught(j) == Complete(j)

\* reload and notification decision when slackNotifyQueue.add throws (the
\* queue's Redis connection is down): no job is added
WorkerNotifyAddFails(j) ==
  /\ jobs[j].state = "active" /\ jobs[j].pc = "notify"
  /\ LET updatedPr == prs[jobs[j].prId]
         wasSummaryReady == jobs[j].loaded[1].summaryStatus = "ready"
     IN /\ ShouldNotifySlack(slackConfig, wasSummaryReady, updatedPr)
        /\ jobs' = SlackEnqueueErrorCaught(j)
  /\ UNCHANGED << analysis, tokenCalls, apiCalls, secret, slackConfig, prs, installations, users, reqs, delivered, responses, slackJobs >>

(***************************************************************************)
(* pr-notify-slack queue, Slack worker and sendSlackMessage                *)
(***************************************************************************)
\* what the POST to the webhook can do: answer 200, answer another status
\* (axios rejects), fail on the network, or run into the 10 s timeout
PostOutcomes == { "http-200", "http-other", "network-error", "timeout" }

\* variant: sendSlackMessage lets the error of a failed POST escape
sendSlackMessageRethrows(cfg, outcome) ==
  IF ~cfg.enabled \/ cfg.webhookUrl = None
  THEN [posted |-> FALSE, result |-> "skipped", threw |-> FALSE]
  ELSE [posted |-> TRUE, result |-> outcome, threw |-> outcome # "http-200"]

\* sendSlackMessage: no POST when Slack is disabled or the URL is missing;
\* otherwise one POST whose failure is caught and logged
sendSlackMessage(cfg, outcome) ==
  IF ~cfg.enabled \/ cfg.webhookUrl = None
  THEN [posted |-> FALSE, result |-> "skipped", threw |-> FALSE]
  ELSE [posted |-> TRUE, result |-> outcome, threw |-> FALSE]

\* the processor of the Slack worker: buildSlackPayload, sendSlackMessage;
\* an error is rethrown and the queue retries the job until its attempts
\* are used up
SlackWorker(k) ==
  /\ slackJobs[k].state = "waiting"
  /\ \E outcome \in PostOutcomes :
       LET sent == sendSlackMessage(slackConfig, outcome)
           job  == [slackJobs[k] EXCEPT
                      !.posts = IF sent.posted THEN @ + 1 ELSE @,
                      !.result = sent.result]
       IN slackJobs' = [slackJobs EXCEPT ![k] =
            IF sent.threw
            THEN [job EXCEPT !.attemptsMade = @ + 1,
                             !.state = IF job.attemptsMade + 1 >= SlackJobAttempts
                                       THEN "failed" ELSE "waiting"]
            ELSE [job EXCEPT !.state = "completed"]]
  /\ UNCHANGED << analysis, tokenCalls, apiCalls, secret, slackConfig, prs, installations, users, reqs, delivered, responses, jobs >>

(***************************************************************************)
(* Installation tokens: getInstallationAccessToken and its caller          *)
(* getPRFiles.  A call is [installationId, pc, token]: it waits for the    *)
(* token ("token"), then for the file list ("files"), then is over; token  *)
(* is the token the call obtained: "none", "valid" or, an hour after it    *)
(* was minted, "expired".  In the handlers above the outcome of getPRFiles *)
(* is the file list they go on with.                                       *)
(***************************************************************************)
\* installation ids the callers ask tokens for
TokenInstallations == {1, 2}

\* getPRFiles is called: getInstallationAccessToken signs a JWT and sends
\* POST /app/installations/:id/access_tokens
getPRFiles(i) ==
  /\ Len(tokenCalls) < MaxTokenCalls
  /\ tokenCalls' = Append(tokenCalls, [installationId |-> i, pc |-> "token", token |-> "none"])
  /\ UNCHANGED << analysis, apiCalls, secret, slackConfig, prs, installations, users, reqs,
                  delivered, responses, jobs, slackJobs >>

\* the platform answers the POST: the token is returned to the caller, which
\* sends the GET of the files; or axios throws and the call is over
getInstallationAccessToken(k) ==
  /\ tokenCalls[k].pc = "token"
  /\ \/ tokenCalls' = [tokenCalls EXCEPT ![k].pc = "files", ![k].token = "valid"]
     \/ tokenCalls' = [tokenCalls EXCEPT ![k].pc = "done"]
  /\ UNCHANGED << analysis, apiCalls, secret, slackConfig, prs, installations, users, reqs,
                  delivered, responses, jobs, slackJobs >>

\* the GET of the files is answered
FilesAnswered(k) ==
  /\ tokenCalls[k].pc = "files"
  /\ tokenCalls' = [tokenCalls EXCEPT ![k].pc = "done"]
  /\ UNCHANGED << analysis, apiCalls, secret, slackConfig, prs, installations, users, reqs,
                  delivered, responses, jobs, slackJobs >>

\* an hour after it was minted the token is no longer valid
TokenExpires(k) ==
  /\ tokenCalls[k].token = "valid"
  /\ tokenCalls' = [tokenCalls EXCEPT ![k].token = "expired"]
  /\ UNCHANGED << analysis, apiCalls, secret, slackConfig, prs, installations, users, reqs,
                  delivered, responses, jobs, slackJobs >>

NextToken ==
  \/ \E i \in TokenInstallations : getPRFiles(i)
  \/ \E k \in 1..Len(tokenCalls) : getInstallationAccessToken(k)
  \/ \E k \in 1..Len(tokenCalls) : FilesAnswered(k)
  \/ \E k \in 1..Len(tokenCalls) : TokenExpires(k)

SpecToken == Init /\ [][NextToken]_vars

(***************************************************************************)
(* regeneratePRSummary: POST /api/prs/:id/regenerate                       *)
(***************************************************************************)
ApiPrIds == {1, 2}

\* the summary the handler stores
RegeneratingSummary(stamp) ==
  [tldr |-> "Regenerating summary...", risks |-> <<>>, labels |-> <<>>, createdAt |-> stamp]

\* an authenticated request arrives: req.params.id, req.user.userId,
\* req.user.installationId
regenerateRequest(id, u, inst) ==
  /\ Len(apiCalls) < MaxApiCalls
  /\ apiCalls' = Append(apiCalls, [prId |-> id, userId |-> u, installationId |-> inst,
                                    pc |-> "find", loaded |-> None, status |-> 0])
  /\ UNCHANGED << analysis, tokenCalls, secret, slackConfig, prs, installations, users, reqs, delivered, responses, jobs, slackJobs >>

\* PullRequest.findOne({ _id: id, installationId }); 404 when there is none
regeneratePRSummary(c) ==
  /\ apiCalls[c].pc = "find"
  /\ LET id == apiCalls[c].prId
     IN IF id \in 1..Len(prs) /\ prs[id].installationId = apiCalls[c].installationId
        THEN apiCalls' = [apiCalls EXCEPT ![c].pc = "save", ![c].loaded = Some(prs[id])]
        ELSE apiCalls' = [apiCalls EXCEPT ![c].pc = "done", ![c].status = 404]
  /\ UNCHANGED << analysis, tokenCalls, secret, slackConfig, prs, installations, users, reqs, delivered, responses, jobs, slackJobs >>

\* pr.userId = userId; pr.summary = {...}; await pr.save(): the save writes
\* the modified paths only; then the success response
regenerateSave(c) ==
  /\ apiCalls[c].pc = "save"
  /\ LET id == apiCalls[c].prId
         orig == apiCalls[c].loaded[1]
     IN prs' = [prs EXCEPT ![id].summary = Some(RegeneratingSummary(<< 0, c >>)),
                           ![id].userId = IF orig.userId # Some(apiCalls[c].userId)
                                          THEN Some(apiCalls[c].userId) ELSE @]
  /\ apiCalls' = [apiCalls EXCEPT ![c].pc = "done", ![c].status = 200]
  /\ UNCHANGED << analysis, tokenCalls, secret, slackConfig, installations, users, reqs, delivered, responses, jobs, slackJobs >>

(***************************************************************************)
(* handleAppSetup: GET /api/github/app/setup, the callback of the          *)
(* installation flow                                                       *)
(***************************************************************************)
\* the callback arrives with a valid state token of user u for installation i
appSetupRequest(u, i) ==
  /\ Len(apiCalls) < MaxApiCalls
  /\ apiCalls' = Append(apiCalls, [prId |-> 0, userId |-> u, installationId |-> i,
                                    pc |-> "setup.load", loaded |-> None, status |-> 0])
  /\ UNCHANGED << analysis, tokenCalls, secret, slackConfig, prs, installations, users, reqs, delivered, responses, jobs, slackJobs >>

\* User.findById(userId); the installation is then fetched from GitHub
handleAppSetup(c) ==
  /\ apiCalls[c].pc = "setup.load"
  /\ apiCalls' = [apiCalls EXCEPT ![c].pc = "setup.upsert",
                                  ![c].loaded = Some(users[apiCalls[c].userId])]
  /\ UNCHANGED << analysis, tokenCalls, secret, slackConfig, prs, installations, users, reqs, delivered, responses, jobs, slackJobs >>

\* Installation.findOneAndUpdate({ installationId }, {...}, { upsert: true }):
\* the account is the one GitHub reports; the repositories are the fetched
\* ones, or none when the fetch failed
AppSetupUpsert(c) ==
  /\ apiCalls[c].pc = "setup.upsert"
  /\ \E repos \in {Events[6].repositories, <<>>} :
       LET id  == apiCalls[c].installationId
           x   == FindInstallation(installations, id)
           doc == [ installationId |-> id, accountType |-> Events[6].accountType,
                    accountLogin |-> Events[6].accountLogin, repositories |-> repos,
                    suspendedAt |-> FALSE ]
       IN installations' = IF x = 0 THEN Append(installations, doc)
                           ELSE [installations EXCEPT ![x] = doc]
  /\ apiCalls' = [apiCalls EXCEPT ![c].pc = "setup.link"]
  /\ UNCHANGED << analysis, tokenCalls, secret, slackConfig, prs, users, reqs, delivered, responses, jobs, slackJobs >>

\* hadInstallation is read from the user loaded at the start; push and save
\* push the id onto the stored array; then the redirect
AppSetupLink(c) ==
  /\ apiCalls[c].pc = "setup.link"
  /\ LET u == apiCalls[c].userId
         hadInstallation == SeqIncludes(apiCalls[c].loaded[1].installationIds,
                                        apiCalls[c].installationId)
     IN users' = IF hadInstallation THEN users
                 ELSE [users EXCEPT ![u].installationIds =
                                       Append(@, apiCalls[c].installationId)]
  /\ apiCalls' = [apiCalls EXCEPT ![c].pc = "done", ![c].status = 302]
  /\ UNCHANGED << analysis, tokenCalls, secret, slackConfig, prs, installations, reqs, delivered, responses, jobs, slackJobs >>

(***************************************************************************)
(* PR listing and detail (GET /api/prs, GET /api/prs/:id).  req.user is    *)
(* the stored user; the entry added to apiCalls is the answered request:   *)
(* loaded holds the PullRequests of the response body                      *)
(***************************************************************************)
\* PullRequest.find({ installationId: { $in: ids } })
PRsOfInstallations(ids) ==
  SelectSeq(prs, LAMBDA p : SeqIncludes(ids, p.installationId))

\* Installation.find({ accountLogin, suspendedAt: null }) restricted to the
\* installationIds in among, mapped to installationId
InstallationIdsOf(login, among) ==
  LET m == SelectSeq(installations,
                     LAMBDA i : /\ i.accountLogin = login
                                /\ ~i.suspendedAt
                                /\ i.installationId \in among)
  IN [k \in 1..Len(m) |-> m[k].installationId]

\* 403 without installations, 404 when the PR is not of the user's
\* installations
getPRDetail(u, id) ==
  /\ Len(apiCalls) < MaxApiCalls
  /\ LET ids == users[u].installationIds
         found == id \in 1..Len(prs) /\ SeqIncludes(ids, prs[id].installationId)
     IN apiCalls' = Append(apiCalls,
          [prId |-> id, userId |-> u, installationId |-> 0, pc |-> "done",
           loaded |-> IF ids # <<>> /\ found THEN Some(prs[id]) ELSE None,
           status |-> IF ids = <<>> THEN 403 ELSE IF found THEN 200 ELSE 404])
  /\ UNCHANGED << analysis, tokenCalls, secret, slackConfig, prs, installations, users, reqs, delivered, responses, jobs, slackJobs >>

\* a user without installationIds gets those of the unsuspended
\* installations of their login; a user none of whose installations has a
\* PR gets those of their login that have one; then the query, without
\* status, repoId or q
getUserPRs(u) ==
  /\ Len(apiCalls) < MaxApiCalls
  /\ LET user == users[u]
         all == {installations[k].installationId : k \in 1..Len(installations)}
         foundIds == InstallationIdsOf(user.username, all)
         ids1 == IF user.installationIds = <<>> THEN foundIds ELSE user.installationIds
         prInstallationIds == {prs[k].installationId : k \in 1..Len(prs)}
         correctIds == InstallationIdsOf(user.username, prInstallationIds)
         ids2 == IF ids1 # <<>> /\ PRsOfInstallations(ids1) = <<>> /\ correctIds # <<>>
                 THEN correctIds ELSE ids1
     IN /\ users' = [users EXCEPT ![u].installationIds = ids2]
        /\ apiCalls' = Append(apiCalls,
             [prId |-> 0, userId |-> u, installationId |-> 0, pc |-> "done",
              loaded |-> PRsOfInstallations(ids2), status |-> 200])
  /\ UNCHANGED << analysis, tokenCalls, secret, slackConfig, prs, installations, reqs, delivered, responses, jobs, slackJobs >>

(***************************************************************************)
(* Specification of the pipeline: pull-request webhooks with a valid       *)
(* signature, the pr-summary queue and the Summary Worker                  *)
(***************************************************************************)
ValidSig(e) == Some(SigPrefix \o HmacSha256Hex(secret, e))

PipelineEvents == {1, 2, 3, 4}

Next ==
  \/ \E e \in PipelineEvents : Receive(e, ValidSig(e), MaxDeliveries)
  \/ \E r \in 1..Len(reqs) : OpenedFind(r)
  \/ \E r \in 1..Len(reqs) : OpenedCreate(r)
  \/ \E r \in 1..Len(reqs) : OpenedEnqueue(r)
  \/ \E r \in 1..Len(reqs) : SyncFind(r)
  \/ \E r \in 1..Len(reqs) : SyncUpsert(r)
  \/ \E r \in 1..Len(reqs) : SyncEnqueue(r)
  \/ \E r \in 1..Len(reqs) : PRClosed(r)
  \/ \E r \in 1..Len(reqs) : PRReopened(r)
  \/ \E r \in 1..Len(reqs) : ReopenedEnqueue(r)
  \/ \E j \in 1..Len(jobs) : WorkerLoad(j, PlatformFiles, MaxFetchFailures)
  \/ \E j \in 1..Len(jobs) : WorkerFetchFailed(j)
  \/ \E j \in 1..Len(jobs) : WorkerLLM(j)
  \/ \E j \in 1..Len(jobs) : WorkerNotify(j)

Spec == Init /\ [][Next]_vars

(***************************************************************************)
(* Redelivery of one pull_request.opened event                             *)
(***************************************************************************)
MaxRedeliveries == 3

NextOpened ==
  \/ Receive(1, ValidSig(1), MaxRedeliveries)
  \/ \E r \in 1..Len(reqs) : OpenedFind(r)
  \/ \E r \in 1..Len(reqs) : OpenedCreate(r)
  \/ \E r \in 1..Len(reqs) : OpenedEnqueue(r)
  \/ \E j \in 1..Len(jobs) : WorkerLoad(j, PlatformFiles, MaxFetchFailures)
  \/ \E j \in 1..Len(jobs) : WorkerFetchFailed(j)
  \/ \E j \in 1..Len(jobs) : WorkerLLM(j)
  \/ \E j \in 1..Len(jobs) : WorkerNotify(j)

SpecOpened == Init /\ [][NextOpened]_vars

(***************************************************************************)
(* Concurrent opened, synchronize and edited deliveries for one            *)
(* (repoId, number); the edited event comes from installation 2            *)
(***************************************************************************)
UpsertEvents == {1, 2, 5}

NextUpsert ==
  \/ \E e \in UpsertEvents : Receive(e, ValidSig(e), MaxRedeliveries)
  \/ \E r \in 1..Len(reqs) : OpenedFind(r)
  \/ \E r \in 1..Len(reqs) : OpenedCreate(r)
  \/ \E r \in 1..Len(reqs) : OpenedEnqueue(r)
  \/ \E r \in 1..Len(reqs) : SyncFind(r)
  \/ \E r \in 1..Len(reqs) : SyncUpsert(r)
  \/ \E r \in 1..Len(reqs) : SyncEnqueue(r)

SpecUpsert == Init /\ [][NextUpsert]_vars

(***************************************************************************)
(* Notification decision: one PR, a 'generate' and a 'regenerate' job,     *)
(* Slack enabled or not, file lists on both sides of the threshold; the    *)
(* platform fetch succeeds, so that every attempt that works reaches the   *)
(* decision                                                                *)
(***************************************************************************)
\* list 3 carries a secret and scores 55; list 9 scores exactly 60 without one
NotifyFiles == {3, 9}

\* values of SLACK_RISK_THRESHOLD: unset (the default) and the maximal score
RiskThresholds == {DefaultRiskThreshold, analyzePullRequestDeterministic(FileLists[6]).riskScore}

InitNotify ==
  /\ secret = <<"k","1">>
  /\ slackConfig \in [enabled : BOOLEAN, webhookUrl : {Some(WebhookUrl)},
                     riskThreshold : RiskThresholds]
  /\ InitStore

NextNotify ==
  \/ Receive(1, ValidSig(1), 1)
  \/ \E r \in 1..Len(reqs) : OpenedFind(r)
  \/ \E r \in 1..Len(reqs) : OpenedCreate(r)
  \/ \E r \in 1..Len(reqs) : OpenedEnqueue(r)
  \/ \E id \in 1..Len(prs) : AddRegenerate(id)
  \/ \E j \in 1..Len(jobs) : WorkerLoad(j, NotifyFiles, 0)
  \/ \E j \in 1..Len(jobs) : WorkerLLM(j)
  \/ \E j \in 1..Len(jobs) : WorkerNotify(j)

SpecNotify == InitNotify /\ [][NextNotify]_vars

(***************************************************************************)
(* Two synchronize deliveries for one PR, the Summary Worker and the Slack *)
(* worker; the platform fetch succeeds                                     *)
(***************************************************************************)
NextSync ==
  \/ Receive(2, ValidSig(2), MaxDeliveries)
  \/ \E r \in 1..Len(reqs) : SyncFind(r)
  \/ \E r \in 1..Len(reqs) : SyncUpsert(r)
  \/ \E r \in 1..Len(reqs) : SyncEnqueue(r)
  \/ \E j \in 1..Len(jobs) : WorkerLoad(j, PlatformFiles, 0)
  \/ \E j \in 1..Len(jobs) : WorkerLLM(j)
  \/ \E j \in 1..Len(jobs) : WorkerNotify(j)
  \/ \E k \in 1..Len(slackJobs) : SlackWorker(k)

SpecSync == Init /\ [][NextSync]_vars

(***************************************************************************)
(* Chat notification: one PR whose files are high-risk, its 'generate' job *)
(* and 'regenerate' jobs, the chat jobs they enqueue and the Slack worker, *)
(* with and without SLACK_WEBHOOK_URL                                      *)
(***************************************************************************)
ChatFiles == {2}

InitChat ==
  /\ secret = <<"k","1">>
  /\ slackConfig \in [enabled : {TRUE}, webhookUrl : {None, Some(WebhookUrl)},
                       riskThreshold : {DefaultRiskThreshold}]
  /\ InitStore

NextChat ==
  \/ Receive(1, ValidSig(1), 1)
  \/ \E r \in 1..Len(reqs) : OpenedFind(r)
  \/ \E r \in 1..Len(reqs) : OpenedCreate(r)
  \/ \E r \in 1..Len(reqs) : OpenedEnqueue(r)
  \/ \E id \in 1..Len(prs) : AddRegenerate(id)
  \/ \E j \in 1..Len(jobs) : WorkerLoad(j, ChatFiles, 0)
  \/ \E j \in 1..Len(jobs) : WorkerLLM(j)
  \/ \E j \in 1..Len(jobs) : WorkerNotify(j)
  \/ \E k \in 1..Len(slackJobs) : SlackWorker(k)

SpecChat == InitChat /\ [][NextChat]_vars

(***************************************************************************)
(* A job left in the pr-summary queue for a PullRequest that is not stored *)
(* (the PR was removed outside the service), beside the jobs of opened     *)
(* deliveries                                                              *)
(***************************************************************************)
\* job.data.pullRequestId of the job without PullRequest
MissingPrId == 2

InitMissing ==
  /\ secret = <<"k","1">>
  /\ slackConfig = [enabled |-> TRUE, webhookUrl |-> Some(WebhookUrl),
                    riskThreshold |-> DefaultRiskThreshold]
  /\ prs = <<>>
  /\ installations = <<>>
  /\ users = InitUsers
  /\ reqs = <<>>
  /\ delivered = 0
  /\ responses = {}
  /\ \E name \in {"generate", "regenerate"} :
       jobs = << [GenerateJob("none", MissingPrId) EXCEPT !.name = name] >>
  /\ slackJobs = <<>>
  /\ tokenCalls = <<>>
  /\ apiCalls = <<>>
  /\ analysis = AnalysisOf

NextMissing ==
  \/ Receive(1, ValidSig(1), MaxDeliveries)
  \/ \E r \in 1..Len(reqs) : OpenedFind(r)
  \/ \E r \in 1..Len(reqs) : OpenedCreate(r)
  \/ \E r \in 1..Len(reqs) : OpenedEnqueue(r)
  \/ \E j \in 1..Len(jobs) : WorkerLoad(j, PlatformFiles, 0)
  \/ \E j \in 1..Len(jobs) : WorkerLLM(j)
  \/ \E j \in 1..Len(jobs) : WorkerNotify(j)

SpecMissing == InitMissing /\ [][NextMissing]_vars

(***************************************************************************)
(* Progress of the summary: opened, synchronize and reopened deliveries    *)
(* for one PR.  Every handler that has started runs to its response and    *)
(* every job the queue holds is given its attempts (worker concurrency 5,  *)
(* attempts 3); deliveries themselves are not forced                       *)
(***************************************************************************)
HandlerSteps ==
  \E r \in 1..Len(reqs) :
    \/ OpenedFind(r) \/ OpenedCreate(r) \/ OpenedEnqueue(r)
    \/ SyncFind(r) \/ SyncUpsert(r) \/ SyncEnqueue(r)
    \/ PRReopened(r) \/ ReopenedEnqueue(r)

WorkerAttempt(j) ==
  /\ j \in 1..Len(jobs)
  /\ \/ WorkerLoad(j, PlatformFiles, MaxFetchFailures)
     \/ WorkerFetchFailed(j)
     \/ WorkerLLM(j)
     \/ WorkerNotify(j)

NextAccepted ==
  \/ \E e \in {1, 2, 4} : Receive(e, ValidSig(e), MaxDeliveries)
  \/ HandlerSteps
  \/ \E j \in 1..MaxJobs : WorkerAttempt(j)

NextLive ==
  \/ NextAccepted
  \/ \E r \in 1..Len(reqs) : EnqueueErrorCaught(r)

Fairness ==
  /\ WF_vars(HandlerSteps)
  /\ WF_vars(\E r \in 1..Len(reqs) : EnqueueErrorCaught(r))
  /\ \A j \in 1..MaxJobs : WF_vars(WorkerAttempt(j))

\* every add is accepted by the queue
SpecAccepted == Init /\ [][NextAccepted]_vars /\ Fairness

SpecLive == Init /\ [][NextLive]_vars /\ Fairness

(***************************************************************************)
(* Platform failures: opened and reopened deliveries for one PR; the       *)
(* fetch of the PR metadata or of the file list may fail in every attempt  *)
(* the queue grants a job                                                  *)
(***************************************************************************)
NextFetch ==
  \/ \E e \in {1, 4} : Receive(e, ValidSig(e), MaxDeliveries)
  \/ \E r \in 1..Len(reqs) : OpenedFind(r)
  \/ \E r \in 1..Len(reqs) : OpenedCreate(r)
  \/ \E r \in 1..Len(reqs) : OpenedEnqueue(r)
  \/ \E r \in 1..Len(reqs) : PRReopened(r)
  \/ \E r \in 1..Len(reqs) : ReopenedEnqueue(r)
  \/ \E j \in 1..Len(jobs) : WorkerLoad(j, PlatformFiles, JobAttempts)
  \/ \E j \in 1..Len(jobs) : WorkerFetchFailed(j)
  \/ \E j \in 1..Len(jobs) : WorkerLLM(j)
  \/ \E j \in 1..Len(jobs) : WorkerNotify(j)

SpecFetch == Init /\ [][NextFetch]_vars

(***************************************************************************)
(* Retries: redelivered opened events for one PR and its 'generate' job;   *)
(* the platform fetch may fail in every attempt the queue grants the job,  *)
(* and once more                                                           *)
(***************************************************************************)
NextRetry ==
  \/ Receive(1, ValidSig(1), MaxRedeliveries)
  \/ \E r \in 1..Len(reqs) : OpenedFind(r)
  \/ \E r \in 1..Len(reqs) : OpenedCreate(r)
  \/ \E r \in 1..Len(reqs) : OpenedEnqueue(r)
  \/ \E j \in 1..Len(jobs) : WorkerLoad(j, PlatformFiles, JobAttempts + 1)
  \/ \E j \in 1..Len(jobs) : WorkerFetchFailed(j)
  \/ \E j \in 1..Len(jobs) : WorkerLLM(j)
  \/ \E j \in 1..Len(jobs) : WorkerNotify(j)

SpecRetry == Init /\ [][NextRetry]_vars

(***************************************************************************)
(* Installation lifecycle: installation.created and installation.deleted   *)
(* deliveries for installation 1, from an empty store or from a store that *)
(* holds the installation with both users linked                           *)
(***************************************************************************)
InstallEvents == {6, 7}

InitInstall ==
  /\ secret = <<"k","1">>
  /\ slackConfig = [enabled |-> TRUE, webhookUrl |-> Some(WebhookUrl),
                    riskThreshold |-> DefaultRiskThreshold]
  /\ prs = <<>>
  /\ \/ installations = <<>> /\ users = InitUsers
     \/ /\ installations =
             << [ installationId |-> 1, accountType |-> "User",
                  accountLogin |-> "alice", repositories |-> Events[6].repositories,
                  suspendedAt |-> FALSE ] >>
        /\ users = << [username |-> "alice", installationIds |-> <<1>>],
                      [username |-> "bob",   installationIds |-> <<2, 1>>] >>
  /\ reqs = <<>>
  /\ delivered = 0
  /\ responses = {}
  /\ jobs = <<>>
  /\ slackJobs = <<>>
  /\ tokenCalls = <<>>
  /\ apiCalls = <<>>
  /\ analysis = AnalysisOf

NextInstall ==
  \/ \E e \in InstallEvents : Receive(e, ValidSig(e), MaxRedeliveries)
  \/ \E r \in 1..Len(reqs) : handleInstallationCreated(r)
  \/ \E r \in 1..Len(reqs) : InstallationCreate(r)
  \/ \E r \in 1..Len(reqs) : InstallationLink(r)
  \/ \E r \in 1..Len(reqs) : InstallationLinkSave(r)
  \/ \E r \in 1..Len(reqs) : handleInstallationDeleted(r)
  \/ \E r \in 1..Len(reqs) : InstallationPull(r)

SpecInstall == InitInstall /\ [][NextInstall]_vars

(***************************************************************************)
(* Repository selection: installation_repositories deliveries, with        *)
(* redeliveries, for an installation that is stored or not                 *)
(***************************************************************************)
RepoEvents == {9, 19, 20}

NextRepos ==
  \/ \E e \in RepoEvents : Receive(e, ValidSig(e), MaxRedeliveries)
  \/ \E r \in 1..Len(reqs) : handleInstallationRepositoriesAdded(r)
  \/ \E r \in 1..Len(reqs) : handleInstallationRepositoriesRemoved(r)

SpecRepos == InitInstall /\ [][NextRepos]_vars

(***************************************************************************)
(* Access after uninstall: installation.created and installation.deleted   *)
(* for installation 1, a PR of that installation, and listing and detail   *)
(* requests of every user.  A created delivery arrives only before the     *)
(* deleted one: its handling may still be in progress when that arrives    *)
(***************************************************************************)
DeletedDelivered ==
  \/ \E r \in 1..Len(reqs) : reqs[r].ev = 7
  \/ \E x \in responses : x.ev = 7

NextListing ==
  \/ ~DeletedDelivered /\ Receive(6, ValidSig(6), MaxRedeliveries)
  \/ \E e \in {1, 7} : Receive(e, ValidSig(e), MaxRedeliveries)
  \/ \E r \in 1..Len(reqs) : OpenedFind(r) \/ OpenedCreate(r) \/ OpenedEnqueue(r)
  \/ \E r \in 1..Len(reqs) : handleInstallationCreated(r)
  \/ \E r \in 1..Len(reqs) : InstallationCreate(r)
  \/ \E r \in 1..Len(reqs) : InstallationLink(r)
  \/ \E r \in 1..Len(reqs) : InstallationLinkSave(r)
  \/ \E r \in 1..Len(reqs) : handleInstallationDeleted(r)
  \/ \E r \in 1..Len(reqs) : InstallationPull(r)
  \/ \E u \in 1..Len(users) : getPRDetail(u, 1)
  \/ \E u \in 1..Len(users) : getUserPRs(u)

SpecListing == InitInstall /\ [][NextListing]_vars

(***************************************************************************)
(* Analyzer: redelivered opened events for one PR whose 'generate' job     *)
(* fetches any file list of the catalogue                                  *)
(***************************************************************************)
AnalyzedFiles == 1..Len(FileLists)

NextAnalyze ==
  \/ Receive(1, ValidSig(1), MaxRedeliveries)
  \/ \E r \in 1..Len(reqs) : OpenedFind(r)
  \/ \E r \in 1..Len(reqs) : OpenedCreate(r)
  \/ \E r \in 1..Len(reqs) : OpenedEnqueue(r)
  \/ \E j \in 1..Len(jobs) : WorkerLoad(j, AnalyzedFiles, 0)
  \/ \E j \in 1..Len(jobs) : WorkerLLM(j)
  \/ \E j \in 1..Len(jobs) : WorkerNotify(j)

SpecAnalyze == Init /\ [][NextAnalyze]_vars

(***************************************************************************)
(* The regenerate endpoint beside one opened pull request and its job      *)
(***************************************************************************)
NextRegenerate ==
  \/ Receive(1, ValidSig(1), 1)
  \/ \E r \in 1..Len(reqs) : OpenedFind(r) \/ OpenedCreate(r) \/ OpenedEnqueue(r)
  \/ \E j \in 1..Len(jobs) : WorkerLoad(j, PlatformFiles, 0) \/ WorkerLLM(j) \/ WorkerNotify(j)
  \/ \E id \in ApiPrIds, u \in 1..Len(users), inst \in TokenInstallations :
       regenerateRequest(id, u, inst)
  \/ \E c \in 1..Len(apiCalls) : regeneratePRSummary(c) \/ regenerateSave(c)

SpecRegenerate == Init /\ [][NextRegenerate]_vars

(***************************************************************************)
(* One pull request that is opened, synchronized and edited while its jobs *)
(* are processed                                                           *)
(***************************************************************************)
EditEvents == {1, 2, 18}

NextEdit ==
  \/ \E e \in EditEvents : Receive(e, ValidSig(e), MaxDeliveries)
  \/ \E r \in 1..Len(reqs) : OpenedFind(r) \/ OpenedCreate(r) \/ OpenedEnqueue(r)
  \/ \E r \in 1..Len(reqs) : SyncFind(r) \/ SyncUpsert(r) \/ SyncEnqueue(r)
  \/ \E j \in 1..Len(jobs) : WorkerLoad(j, PlatformFiles, 0) \/ WorkerLLM(j) \/ WorkerNotify(j)

SpecEdit == Init /\ [][NextEdit]_vars

(***************************************************************************)
(* One opened pull request whose attempts reach the notification while the *)
(* pr-notify-slack queue accepts or refuses the job                        *)
(***************************************************************************)
NextEnqueue ==
  \/ Receive(1, ValidSig(1), MaxRedeliveries)
  \/ \E r \in 1..Len(reqs) : OpenedFind(r) \/ OpenedCreate(r) \/ OpenedEnqueue(r)
  \/ \E j \in 1..Len(jobs) : WorkerLoad(j, NotifyFiles, 0) \/ WorkerLLM(j)
  \/ \E j \in 1..Len(jobs) : WorkerNotify(j)
  \/ \E j \in 1..Len(jobs) : WorkerNotifyAddFails(j)

SpecEnqueue == InitNotify /\ [][NextEnqueue]_vars

(***************************************************************************)
(* Installation of the app: the installation.created webhook and the setup *)
(* callback of the installing user                                         *)
(***************************************************************************)
NextSetup ==
  \/ Receive(6, ValidSig(6), MaxDeliveries)
  \/ \E r \in 1..Len(reqs) : handleInstallationCreated(r) \/ InstallationCreate(r)
  \/ \E r \in 1..Len(reqs) : InstallationLink(r) \/ InstallationLinkSave(r)
  \/ appSetupRequest(1, 1)
  \/ \E c \in 1..Len(apiCalls) : handleAppSetup(c) \/ AppSetupUpsert(c) \/ AppSetupLink(c)

SpecSetup == InitInstall /\ [][NextSetup]_vars

(***************************************************************************)
(* One pull request that is edited and closed while the attempts of its    *)
(* jobs are in progress                                                    *)
(***************************************************************************)
FrameEvents == {1, 3, 18}

NextFrame ==
  \/ \E e \in FrameEvents : Receive(e, ValidSig(e), MaxDeliveries)
  \/ \E r \in 1..Len(reqs) : OpenedFind(r) \/ OpenedCreate(r) \/ OpenedEnqueue(r)
  \/ \E r \in 1..Len(reqs) : SyncFind(r) \/ SyncUpsert(r) \/ SyncEnqueue(r)
  \/ \E r \in 1..Len(reqs) : PRClosed(r)
  \/ \E j \in 1..Len(jobs) : WorkerLoad(j, PlatformFiles, 0)
  \/ \E j \in 1..Len(jobs) : WorkerLLM(j) \/ WorkerNotify(j)

SpecFrame == Init /\ [][NextFrame]_vars

(***************************************************************************)
(* Webhook receiver with any secret and any signature header, started from *)
(* a store that already holds PR #7 of installation 1                      *)
(***************************************************************************)
SigDeliveries == 1

SigEvents == {2, 3, 4, 7, 8, 9, 10, 11, 12, 13, 15, 16, 17}

\* signature headers tried for body e: none, empty, the HMAC of e under every
\* secret, the HMAC of another body, the digest without prefix, a short one
SigChoices(e) ==
  { None, Some(<<>>) }
  \cup { Some(SigPrefix \o HmacSha256Hex(s, e)) : s \in Secrets }
  \cup { Some(SigPrefix \o HmacSha256Hex(secret, 1)),
         Some(HmacSha256Hex(secret, e)),
         Some(SigPrefix \o SubSeq(HmacSha256Hex(secret, e), 1, 1)) }

InitSig ==
  /\ secret \in Secrets
  /\ slackConfig = [enabled |-> TRUE, webhookUrl |-> Some(WebhookUrl),
                    riskThreshold |-> DefaultRiskThreshold]
  /\ prs = << NewPR(Events[1], Some(1), "open", 1) >>
  /\ installations =
       << [ installationId |-> 1, accountType |-> "User", accountLogin |-> "alice",
            repositories |-> Events[1].repositories, suspendedAt |-> FALSE ] >>
  /\ users = << [username |-> "alice", installationIds |-> <<1>>],
                [username |-> "bob",   installationIds |-> <<>>] >>
  /\ reqs = <<>>
  /\ delivered = 0
  /\ responses = {}
  /\ jobs = << GenerateJob("opened", 1) >>
  /\ slackJobs = <<>>
  /\ tokenCalls = <<>>
  /\ apiCalls = <<>>
  /\ analysis = AnalysisOf

NextSig ==
  \/ \E e \in SigEvents : \E sig \in SigChoices(e) : Receive(e, sig, SigDeliveries)
  \/ \E r \in 1..Len(reqs) : OpenedFind(r)
  \/ \E r \in 1..Len(reqs) : OpenedCreate(r)
  \/ \E r \in 1..Len(reqs) : OpenedEnqueue(r)
  \/ \E r \in 1..Len(reqs) : SyncFind(r)
  \/ \E r \in 1..Len(reqs) : SyncUpsert(r)
  \/ \E r \in 1..Len(reqs) : SyncEnqueue(r)
  \/ \E r \in 1..Len(reqs) : PRClosed(r)
  \/ \E r \in 1..Len(reqs) : PRReopened(r)
  \/ \E r \in 1..Len(reqs) : ReopenedEnqueue(r)
  \/ \E r \in 1..Len(reqs) : handleInstallationCreated(r)
  \/ \E r \in 1..Len(reqs) : InstallationCreate(r)
  \/ \E r \in 1..Len(reqs) : InstallationLink(r)
  \/ \E r \in 1..Len(reqs) : InstallationLinkSave(r)
  \/ \E r \in 1..Len(reqs) : handleInstallationDeleted(r)
  \/ \E r \in 1..Len(reqs) : InstallationPull(r)
  \/ \E r \in 1..Len(reqs) : handleInstallationRepositoriesAdded(r)
  \/ \E r \in 1..Len(reqs) : handleInstallationRepositoriesRemoved(r)

SpecSig == InitSig /\ [][NextSig]_vars

(***************************************************************************)
(* Properties of the webhook receiver                                      *)
(***************************************************************************)
\* the value 'sha256=' + hex(HMAC-SHA256(s, b)) for the body of request q
ExpectedHeader(q) == Some(SigPrefix \o HmacSha256Hex(secret, q.ev))

\* the header test the claim states, and the one the code applies when no
\* secret is set
MatchesDigest(q) == q.sig = ExpectedHeader(q)

NonEmptyHeader(q) == q.sig \notin {None, Some(<<>>)}

\* a request passed verification when it was handed to a handler (it is in
\* flight) or was answered with a status other than 401
SigAccepted(q) == q.status # 401

\* C1 as stated: for every body and every secret, a request is accepted iff
\* its X-Hub-Signature-256 header equals 'sha256=' + hex(HMAC-SHA256(s, b)).
C1_AcceptedIffDigest ==
  /\ \A r \in 1..Len(reqs) : MatchesDigest(reqs[r])
  /\ \A q \in responses : SigAccepted(q) <=> MatchesDigest(q)

\* C1 amended: with a non-empty secret a request is accepted iff its header
\* equals the digest; with no secret set every request that carries a
\* non-empty header is accepted, whatever the header says.
C1_AcceptedIffDigestOrNoSecret ==
  IF secret = <<>>
  THEN /\ \A r \in 1..Len(reqs) : NonEmptyHeader(reqs[r])
       /\ \A q \in responses : SigAccepted(q) <=> NonEmptyHeader(q)
  ELSE /\ \A r \in 1..Len(reqs) : MatchesDigest(reqs[r])
       /\ \A q \in responses : SigAccepted(q) <=> MatchesDigest(q)

\* a secret is set and a correctly signed delivery was dispatched and answered 200
C1_SignedDeliveryHandled ==
  /\ secret # <<>>
  /\ \E q \in responses :
       /\ q.sig = ExpectedHeader(q)
       /\ Route(q.ev) # "done"
       /\ q.status = 200

StoreAndQueues == << prs, installations, users, jobs, slackJobs >>

\* C2: with a secret configured, a request whose header does not match the
\* HMAC of its body is answered 401 and is never handed to a handler; its
\* delivery changes no PullRequest, Installation or User record and no queue,
\* and every such change is made by a step of a request in flight, whose
\* header matched.
C2_RejectedWithoutEffect ==
  [][ secret # <<>> =>
        /\ \A q \in responses' : q.sig # ExpectedHeader(q) => q.status = 401
        /\ \A r \in 1..Len(reqs') : reqs'[r].sig = ExpectedHeader(reqs'[r])
        /\ delivered' # delivered => StoreAndQueues' = StoreAndQueues
        /\ StoreAndQueues' # StoreAndQueues => (reqs # <<>> /\ reqs' # reqs) ]_vars

\* a present but wrong header was answered 401 while the store holds a PR
C2_WrongHeaderRejected ==
  /\ secret # <<>>
  /\ Len(prs) >= 1
  /\ \E q \in responses :
       /\ q.sig \notin {None, Some(<<>>), ExpectedHeader(q)}
       /\ q.status = 401

(***************************************************************************)
(* Properties of handlePROpened under redelivery                           *)
(***************************************************************************)
\* number of requests in flight whose handler is at step pc
AtStep(rs, pc) == Cardinality({r \in 1..Len(rs) : rs[r].pc = pc})

ProcessedWithoutFailure(js) ==
  \A j \in 1..Len(js) :
    js[j].state = "completed" /\ js[j].attemptsMade = 0 /\ js[j].llm = "ok"

C4_OnePullRequestPerKey ==
  \A i, k \in 1..Len(prs) :
    (prs[i].repoId = prs[k].repoId /\ prs[i].number = prs[k].number) => i = k

\* a synchronize delivery and an opened delivery both found no PR; the upsert
\* inserted it and the create was refused by the unique index
C4_RacingCreateRefused ==
  /\ Len(prs) = 1
  /\ \E q \in responses : Events[q.ev].action = "synchronize" /\ q.status = 200
  /\ \E q \in responses : Events[q.ev].action = "opened" /\ q.status = 500
  /\ \E j \in 1..Len(jobs) : jobs[j].by = "synchronize"

(***************************************************************************)
(* Properties of the Summary Worker                                        *)
(***************************************************************************)
\* the attempt of job j takes its notification decision in this step
Decides(j) == jobs[j].pc = "notify" /\ jobs'[j].pc # "notify"

C6_ReadyHasSummary ==
  \A i \in 1..Len(prs) : prs[i].summaryStatus = "ready" => prs[i].summary # None

\* a PR was brought to ready by the worker and closed by a webhook
C6_ReadyReached ==
  \E i \in 1..Len(prs) :
    /\ prs[i].summaryStatus = "ready" /\ prs[i].summary # None
    /\ prs[i].status = "merged"

\* C7 as stated: in every reachable state a PullRequest with
\* summaryError # null has summaryStatus = error.
C7_ErrorMessageImpliesErrorStatus ==
  \A i \in 1..Len(prs) : prs[i].summaryError # None => prs[i].summaryStatus = "error"

\* the model call of job j's attempt returns in this step, with result res
ModelCallEnds(j, res) == jobs[j].pc = "llm" /\ jobs'[j].llm = res

\* C8 as stated: when fetch and model call succeed, the PR is saved with the
\* model's summary, summaryStatus = ready, summaryError = null and
\* lastSummarizedAt set.
C8_SuccessSavesReady ==
  [][ \A j \in 1..Len(jobs) :
        ModelCallEnds(j, "ok") =>
          LET pr == prs'[jobs[j].prId]
          IN /\ pr.summary # None
             /\ \E out \in LLMOutputs :
                  /\ pr.summary[1].tldr = out.tldr
                  /\ pr.summary[1].risks = out.risks
                  /\ pr.summary[1].labels = out.labels
             /\ pr.summaryStatus = "ready"
             /\ pr.summaryError = None
             /\ pr.lastSummarizedAt # None ]_vars

\* C9 as stated: when the model call fails after a successful fetch, the PR
\* is saved with the Analyzer's output for the fetched files,
\* summaryStatus = error, a summaryError of at most 500 characters, and its
\* previous summary.
C9_FailureSavesAnalysisAndError ==
  [][ \A j \in 1..Len(jobs) :
        ModelCallEnds(j, "failed") =>
          LET pr == prs'[jobs[j].prId]
              a  == analyzePullRequestDeterministic(FileLists[jobs[j].files])
          IN /\ pr.systemLabels = a.systemLabels
             /\ pr.riskFlags = a.riskFlags
             /\ pr.riskScore = a.riskScore
             /\ pr.diffStats = a.diffStats
             /\ pr.summaryStatus = "error"
             /\ pr.summaryError # None
             /\ pr.summaryError[1].len <= MaxErrorLen
             /\ pr.summary = prs[jobs[j].prId].summary ]_vars

\* C10 as stated, first part: an attempt whose model call failed is not
\* thrown back to the queue: it goes on to the notification decision and
\* its attemptsMade does not grow.
C10_ModelFailureCompletes ==
  [][ \A j \in 1..Len(jobs) :
        ModelCallEnds(j, "failed") =>
          /\ jobs'[j].state = "active" /\ jobs'[j].pc = "notify"
          /\ jobs'[j].attemptsMade = jobs[j].attemptsMade ]_vars

\* riskScore >= threshold or 'secrets-suspected' among the riskFlags
IsHighRisk(cfg, doc) ==
  \/ doc.riskScore >= cfg.riskThreshold
  \/ SeqIncludes(doc.riskFlags, "secrets-suspected")

\* C11 as stated: with chat enabled, an attempt whose model call fails on a
\* PR that is high-risk (by the analysis of the attempt and as stored) goes
\* on to the notification decision, and that decision enqueues a
\* pr-notify-chat job for the PR.
C11_FailedAttemptStillNotifies ==
  [][ \A j \in 1..Len(jobs) :
        /\ ( /\ ModelCallEnds(j, "failed")
             /\ slackConfig.enabled
             /\ IsHighRisk(slackConfig, analysis[jobs[j].files])
             /\ IsHighRisk(slackConfig, prs'[jobs[j].prId]) )
           => jobs'[j].state = "active" /\ jobs'[j].pc = "notify"
        /\ ( /\ Decides(j) /\ jobs[j].llm = "failed"
             /\ slackConfig.enabled
             /\ IsHighRisk(slackConfig, prs[jobs[j].prId]) )
           => /\ Len(slackJobs') = Len(slackJobs) + 1
              /\ slackJobs'[Len(slackJobs')].pullRequestId = jobs[j].prId ]_vars

\* job j is taken from the queue in this step, for a stored PR that is ready
\* and has a summary
StartsOnReady(j) ==
  /\ jobs[j].state = "waiting" /\ jobs'[j] # jobs[j]
  /\ jobs[j].prId \in 1..Len(prs)
  /\ prs[jobs[j].prId].summaryStatus = "ready"
  /\ prs[jobs[j].prId].summary # None

\* C12: a 'regenerate' job taken for a PR that is ready with a summary is
\* not skipped: the attempt loads the PR, fetches the files and goes on to
\* analysis, model call and save, and that step runs the model call and the
\* save, which stores the summary of this attempt when the model answered; a
\* job with any other name is completed at once in that state.
C12_RegenerateOverridesDedup ==
  [][ \A j \in 1..Len(jobs) :
        /\ StartsOnReady(j) =>
             IF jobs[j].name = "regenerate"
             THEN /\ jobs'[j].state = "active" /\ jobs'[j].pc = "llm"
                  /\ jobs'[j].loaded = Some(prs[jobs[j].prId])
                  /\ jobs'[j].files # NoFiles
             ELSE jobs'[j].state = "completed" /\ jobs'[j].outcome = "skipped"
        /\ ( /\ jobs[j].name = "regenerate" /\ jobs[j].pc = "llm"
             /\ jobs'[j] # jobs[j] )
           => /\ jobs'[j].llm \in {"ok", "failed"}
              /\ jobs'[j].outcome \in {"saved", "save-threw"}
              /\ (jobs'[j].outcome = "saved" /\ jobs'[j].llm = "ok") =>
                   /\ prs'[jobs[j].prId].summary # None
                   /\ prs'[jobs[j].prId].summary[1].createdAt = Stamp(j) ]_vars

\* a 'regenerate' attempt that loaded a ready PR has replaced its summary
C12_RegeneratedReadyPR ==
  \E j \in 1..Len(jobs) :
    /\ jobs[j].name = "regenerate" /\ jobs[j].pc = "notify"
    /\ jobs[j].loaded[1].summaryStatus = "ready"
    /\ jobs[j].loaded[1].summary # None
    /\ jobs[j].llm = "ok" /\ jobs[j].outcome = "saved"
    /\ prs[jobs[j].prId].summary # None
    /\ prs[jobs[j].prId].summary[1].createdAt = Stamp(j)
    /\ prs[jobs[j].prId].summary # jobs[j].loaded[1].summary

\* C13: a job whose name is not 'regenerate', taken for a PR that is ready
\* with a summary, completes in that step without using an attempt, without
\* fetching files or calling the model, and the step changes no PullRequest
\* and enqueues no chat job.
C13_SkippedJobChangesNothing ==
  [][ \A j \in 1..Len(jobs) :
        (StartsOnReady(j) /\ jobs[j].name # "regenerate") =>
          /\ jobs'[j].state = "completed"
          /\ jobs'[j].attemptsMade = jobs[j].attemptsMade
          /\ jobs'[j].files = NoFiles /\ jobs'[j].loaded = None
          /\ jobs'[j].llm = "none"
          /\ prs' = prs
          /\ slackJobs' = slackJobs ]_vars

\* a 'generate' job was skipped for a PR that a 'regenerate' job made ready
C13_GenerateSkipped ==
  \E j \in 1..Len(jobs) :
    /\ jobs[j].name = "generate" /\ jobs[j].state = "completed"
    /\ jobs[j].outcome = "skipped" /\ jobs[j].attemptsMade = 0
    /\ prs[jobs[j].prId].summaryStatus = "ready"
    /\ prs[jobs[j].prId].summary # None

\* the attempt of job j saves its document in this step
Saves(j) == jobs[j].pc = "llm" /\ jobs'[j].outcome = "saved"

\* C15 as stated: a write by an attempt replaces what was stored: after the
\* save of an attempt the PR's summary, summaryStatus, summaryError and
\* analysis fields are those of the document that attempt saved, so that
\* after two concurrent attempts the stored values are those of the attempt
\* that saved last.
C15_LaterWriteWins ==
  [][ \A j \in 1..Len(jobs) :
        Saves(j) =>
          LET pr    == prs'[jobs[j].prId]
              orig  == jobs[j].loaded[1]
              a     == analysis[jobs[j].files]
          IN /\ pr.systemLabels = a.systemLabels
             /\ pr.riskFlags = a.riskFlags
             /\ pr.riskScore = a.riskScore
             /\ pr.diffStats = a.diffStats
             /\ IF jobs'[j].llm = "ok"
                THEN /\ pr.summaryStatus = "ready"
                     /\ pr.summaryError = None
                     /\ pr.summary # None
                     /\ pr.summary[1].createdAt = Stamp(j)
                ELSE /\ pr.summaryStatus = "error"
                     /\ pr.summaryError # None
                     /\ pr.summary = orig.summary ]_vars

\* C19 as stated: the attempt that finds no PullRequest for its
\* pullRequestId is the only one: the job is failed for good after it and
\* is not handed back to the queue.
C19_MissingPRFailsPermanently ==
  [][ \A j \in 1..Len(jobs) :
        ( /\ jobs[j].state = "waiting" /\ jobs'[j] # jobs[j]
          /\ jobs[j].prId \notin 1..Len(prs) )
        => /\ jobs'[j].state = "failed"
           /\ jobs'[j].attemptsMade = 1 ]_vars

(***************************************************************************)
(* Properties of the notification path                                     *)
(***************************************************************************)
\* number of POSTs made to the webhook for PR id by the jobs k.. of the queue
RECURSIVE PostsFor(_, _, _)
PostsFor(sj, id, k) ==
  IF k > Len(sj) THEN 0
  ELSE (IF sj[k].pullRequestId = id THEN sj[k].posts ELSE 0) + PostsFor(sj, id, k + 1)

\* C14 as stated: whatever the interleaving of the two pr-summary jobs that
\* two synchronize events enqueue for a PR, at most one chat message is
\* posted for that PR.
C14_AtMostOneChatMessage ==
  \A id \in 1..Len(prs) : PostsFor(slackJobs, id, 1) <= 1

\* C17: whatever the POST to the chat webhook does, the step of the Slack
\* worker that processes a pr-notify job completes it: the job is never
\* failed and never handed back to the queue, it makes at most one POST
\* (exactly one when a webhook URL is configured), and a completed job is
\* not processed again.
C17_ChatJobNeverFails ==
  [][ \A k \in 1..Len(slackJobs) :
        /\ slackJobs'[k] # slackJobs[k] =>
             /\ slackJobs[k].state = "waiting"
             /\ slackJobs'[k].state = "completed"
             /\ slackJobs'[k].attemptsMade = 0
             /\ slackJobs'[k].result \in PostOutcomes \cup {"skipped"}
             /\ slackJobs'[k].posts =
                  IF slackConfig.enabled /\ slackConfig.webhookUrl # None THEN 1 ELSE 0
        /\ slackJobs[k].state # "waiting" => slackJobs'[k] = slackJobs[k] ]_vars

\* two chat jobs completed after one POST each, one POST timed out and the
\* other was answered with a status other than 200
C17_FailedPostsCompleted ==
  \E k, n \in 1..Len(slackJobs) :
    /\ slackJobs[k].state = "completed" /\ slackJobs[k].result = "timeout"
    /\ slackJobs[n].state = "completed" /\ slackJobs[n].result = "http-other"
    /\ slackJobs[k].posts = 1 /\ slackJobs[n].posts = 1
    /\ slackJobs[k].attemptsMade = 0 /\ slackJobs[n].attemptsMade = 0

\* C18 as stated: once a pr-notify job whose POST was answered 200 has
\* completed, the PullRequest it names has a non-null slackMessageTs.
C18_PostedSetsMessageTs ==
  \A k \in 1..Len(slackJobs) :
    (slackJobs[k].state = "completed" /\ slackJobs[k].result = "http-200")
      => prs[slackJobs[k].pullRequestId].slackMessageTs # None

(***************************************************************************)
(* Properties of failed platform fetches                                   *)
(***************************************************************************)
\* the summary and the analysis fields of a PullRequest
SummaryAndAnalysis(doc) ==
  << doc.summary, doc.systemLabels, doc.riskFlags, doc.riskScore, doc.diffStats >>

\* C20: when fetchPRData throws in an attempt, the attempt is thrown back to
\* the queue (it counts as a failed attempt and the job is not completed), and
\* the PR is left with summaryStatus "error", a summaryError of at most 500
\* characters, and the summary and analysis fields it had
C20_FetchFailureMarksError ==
  [][\A j \in 1..Len(jobs) :
       (jobs[j].pc = "fetch-failed" /\ jobs'[j].pc # "fetch-failed")
         => LET id == jobs[j].prId
            IN /\ jobs'[j].attemptsMade = jobs[j].attemptsMade + 1
               /\ jobs'[j].state \in {"waiting", "failed"}
               /\ prs'[id].summaryStatus = "error"
               /\ prs'[id].summaryError # None
               /\ prs'[id].summaryError[1].len <= MaxErrorLen
               /\ SummaryAndAnalysis(prs'[id]) = SummaryAndAnalysis(prs[id])]_vars

(***************************************************************************)
(* Properties of the pr-summary queue                                      *)
(***************************************************************************)
\* C21: a pr-summary job is attempted at most JobAttempts = 3 times: an
\* attempt is running only while fewer than 3 attempts have thrown, a job
\* whose third attempt has thrown is in the failed set, and a job in the
\* failed set is never taken again.
C21_AtMostThreeAttempts ==
  [][\A j \in 1..Len(jobs) :
       /\ jobs[j].attemptsMade <= JobAttempts
       /\ jobs[j].state = "active" => jobs[j].attemptsMade < JobAttempts
       /\ jobs[j].attemptsMade >= JobAttempts => jobs[j].state = "failed"
       /\ jobs[j].state = "failed" =>
            /\ jobs[j].attemptsMade = JobAttempts
            /\ jobs'[j] = jobs[j]]_vars

\* a job whose three attempts all threw in fetchPRData is in the failed set
C21_FailedAfterThreeThrows ==
  \E j \in 1..Len(jobs) :
    /\ jobs[j].state = "failed" /\ jobs[j].attemptsMade = JobAttempts
    /\ jobs[j].outcome = "fetch-failed"
    /\ prs[jobs[j].prId].summaryStatus = "error"

(***************************************************************************)
(* Properties of the response statuses                                     *)
(***************************************************************************)
\* the request of response q carried a header that verifySignature accepts
PassedVerification(q) ==
  /\ NonEmptyHeader(q)
  /\ verifySignature(secret, q.ev, q.sig[1])

\* C22: a request that fails signature verification is answered 401, and a
\* request that passes it is answered 200, or 500 on an internal error: no
\* verified request is answered with a 4xx status.
C22_StatusPolicy ==
  \A q \in responses :
    IF PassedVerification(q) THEN q.status \in {200, 500} ELSE q.status = 401

(***************************************************************************)
(* Properties of the installation tokens                                   *)
(***************************************************************************)
\* this step sends a token request for installation i
SendsMint(i) ==
  /\ Len(tokenCalls') = Len(tokenCalls) + 1
  /\ tokenCalls'[Len(tokenCalls')].installationId = i
  /\ tokenCalls'[Len(tokenCalls')].pc = "token"

\* C23: no token request for an installation is sent while another request
\* for that installation is in flight or a token minted for it is unexpired.
C23_SingleFlightMint ==
  [][\A i \in TokenInstallations :
       SendsMint(i) =>
         ~ \E k \in 1..Len(tokenCalls) :
              /\ tokenCalls[k].installationId = i
              /\ tokenCalls[k].pc = "token" \/ tokenCalls[k].token = "valid"]_vars

(***************************************************************************)
(* Properties of the installation webhooks                                 *)
(***************************************************************************)
\* this step sends the response of the installation.deleted handler for r
DeletedHandled(r) == reqs[r].pc = "inst.pull" /\ reqs' = Remove(reqs, r)

\* C24: when the installation.deleted handler for installation i has
\* answered, the Installation document of i is stored with suspendedAt set
\* (the handler removed no document) and no user's installationIds holds i.
C24_DeletedSuspendsAndUnlinks ==
  [][\A r \in 1..Len(reqs) :
       DeletedHandled(r) =>
         LET i == Events[reqs[r].ev].installation
         IN /\ Len(installations') >= Len(installations)
            /\ \A x \in 1..Len(installations') :
                 installations'[x].installationId = i => installations'[x].suspendedAt
            /\ \A u \in 1..Len(users') : ~SeqIncludes(users'[u].installationIds, i)]_vars

(***************************************************************************)
(* Properties of the analyzer                                              *)
(***************************************************************************)
\* the flags the analyzer can raise
RiskFlagNames ==
  << "large-diff", "very-large-diff", "secrets-suspected", "auth-change",
     "config-change", "ci-cd-change" >>

\* C25: the riskScore computed from any set of flags, the riskScore the
\* analyzer returns for every file list, and every riskScore stored on a
\* PullRequest, lies between 0 and 100.
C25_RiskScoreBounded ==
  /\ \A fs \in SUBSET Range(RiskFlagNames) :
       RiskScoreOf(SelectSeq(RiskFlagNames, LAMBDA f : f \in fs)) \in 0..100
  /\ \A i \in AnalyzedFiles : analysis[i].riskScore \in 0..100
  /\ \A p \in 1..Len(prs) : prs[p].riskScore \in 0..100

\* the worker has stored the score of a file list that raises all six
\* flags, whose weights add up to 130
C25_CappedScoreStored ==
  \E p \in 1..Len(prs) :
    /\ Len(prs[p].riskFlags) = 6
    /\ RiskScoreUncapped(prs[p].riskFlags) = 130
    /\ prs[p].riskScore = 100

\* C26: whenever the analyzer returns the flag 'secrets-suspected' it
\* returns the label 'security'.
C26_SecretImpliesSecurity ==
  \A i \in AnalyzedFiles :
    SeqIncludes(analysis[i].riskFlags, "secrets-suspected")
      => SeqIncludes(analysis[i].systemLabels, "security")

\* an attempt analyses files with a suspected secret none of whose names
\* gives the label 'security'
C26_SecretInConfigFile ==
  \E j \in 1..Len(jobs) :
    /\ jobs[j].pc = "llm"
    /\ SeqIncludes(analysis[jobs[j].files].riskFlags, "secrets-suspected")
    /\ ~SeqIncludes(deriveSystemLabels(FileLists[jobs[j].files]), "security")

(***************************************************************************)
(* C27                                                                     *)
(***************************************************************************)
RegenerateHandled(c) == apiCalls[c].pc = "save" /\ apiCalls'[c].status = 200

\* C27: when the regenerate handler has answered for a PR, the PR's summary
\* is null and its summaryStatus is pending.
C27_RegenerateResetsSummary ==
  [][\A c \in 1..Len(apiCalls) :
       RegenerateHandled(c) =>
         /\ prs'[apiCalls[c].prId].summary = None
         /\ prs'[apiCalls[c].prId].summaryStatus = "pending"]_vars

(***************************************************************************)
(* C28                                                                     *)
(***************************************************************************)
\* the handler of request r sends status st in this step
AnsweredWith(r, st) ==
  /\ reqs' = Remove(reqs, r)
  /\ responses' = responses \cup {Response(reqs[r].ev, reqs[r].sig, st)}

\* handlePRSynchronized is answered while it awaits getPRFiles: the call threw
SyncFetchFailed(r) == reqs[r].pc = "sync.files" /\ reqs' = Remove(reqs, r)

\* handlePROpened creates the document after a getPRFiles that threw
OpenedCreatesWithoutFiles(r) ==
  /\ reqs[r].pc = "opened.create"
  /\ reqs[r].files = NoFiles
  /\ reqs' = [reqs EXCEPT ![r].pc = "opened.enqueue", ![r].prId = Len(prs) + 1]

\* handlePROpened answers after a getPRFiles that threw
OpenedAnswersWithoutFiles(r) ==
  /\ reqs[r].pc = "opened.enqueue"
  /\ reqs[r].files = NoFiles
  /\ reqs' = Remove(reqs, r)

\* C28: a failed file fetch in a pull_request handler does not block the 200:
\* a synchronize/edited request whose fetch failed is answered 200; an opened
\* request whose fetch failed creates the PR with filesChanged = [] and
\* summaryStatus pending, enqueues its 'generate' job and is answered 200.
C28_FileFetchBestEffort ==
  [][\A r \in 1..Len(reqs) :
       /\ SyncFetchFailed(r) => AnsweredWith(r, 200)
       /\ OpenedCreatesWithoutFiles(r) =>
            /\ Len(prs') = Len(prs) + 1
            /\ prs'[Len(prs')].filesChanged = NoFiles
            /\ prs'[Len(prs')].summaryStatus = "pending"
       /\ OpenedAnswersWithoutFiles(r) =>
            /\ AnsweredWith(r, 200)
            /\ jobs' = Append(jobs, GenerateJob("opened", reqs[r].prId))]_vars

(***************************************************************************)
(* C29                                                                     *)
(***************************************************************************)
\* the upsert of request r is followed by prSummaryQueue.add ...
SyncEnqueues(r) ==
  /\ reqs[r].pc = "sync.upsert"
  /\ Len(reqs') = Len(reqs)
  /\ reqs'[r].pc = "sync.enqueue"

\* ... or by the 200 without a job
SyncSkips(r) == reqs[r].pc = "sync.upsert" /\ AnsweredWith(r, 200)

\* the upsert of request r inserts the document
SyncCreates(r) == reqs[r].pc = "sync.upsert" /\ Len(prs') = Len(prs) + 1

\* the document the upsert of request r matches is stored with summaryStatus pending
SyncStoredPending(r) ==
  LET e == Events[reqs[r].ev]
      x == FindByInstRepoNumber(prs, e.installation, e.repoId, e.number)
  IN x # 0 /\ prs[x].summaryStatus = "pending"

\* C29: handlePRSynchronized enqueues a 'generate' job if and only if its
\* upsert created the PR or the stored summaryStatus is pending: for an
\* existing PR that is ready or error it enqueues nothing.
C29_EnqueueIffNewOrPending ==
  [][\A r \in 1..Len(reqs) :
       /\ SyncEnqueues(r) => (SyncCreates(r) \/ SyncStoredPending(r))
       /\ SyncSkips(r) => ~(SyncCreates(r) \/ SyncStoredPending(r))]_vars

(***************************************************************************)
(* C30                                                                     *)
(***************************************************************************)
\* the fields of $set
SyncSetFields == {"title", "author", "branchFrom", "branchTo", "status", "filesChanged"}

\* the fields the update must leave alone: summary state, analysis, owner, identity
SyncKeptFields ==
  {"summary", "summaryStatus", "summaryError", "lastSummarizedAt",
   "systemLabels", "riskFlags", "riskScore", "diffStats",
   "userId", "installationId", "repoId", "number"}

\* the findOneAndUpdate of request r has run
SyncUpserted(r) ==
  /\ reqs[r].pc = "sync.upsert"
  /\ SyncEnqueues(r) \/ reqs' = Remove(reqs, r)

\* C30: when the upsert of a synchronize/edited event matches a stored PR, it
\* writes title, author, branchFrom, branchTo, status and filesChanged from the
\* event and leaves every other field of the PR, and every other PR, as it was.
C30_SyncOverwritesOnlySetFields ==
  [][\A r \in 1..Len(reqs) :
       LET e == Events[reqs[r].ev]
           x == FindByInstRepoNumber(prs, e.installation, e.repoId, e.number)
       IN (SyncUpserted(r) /\ x # 0) =>
            /\ Len(prs') = Len(prs)
            /\ \A y \in 1..Len(prs) : y # x => prs'[y] = prs[y]
            /\ SyncKeptFields \subseteq DOMAIN prs[x]
            /\ \A f \in DOMAIN prs[x] \ SyncSetFields : prs'[x][f] = prs[x][f]
            /\ prs'[x].title = e.title /\ prs'[x].author = e.author
            /\ prs'[x].branchFrom = e.headRef /\ prs'[x].branchTo = e.baseRef
            /\ prs'[x].status = e.state
            /\ prs'[x].filesChanged = reqs[r].files]_vars

\* the edited event was answered 200 without a job of its own for a PR that
\* opened created: it updated a stored PR that was not pending; the PR has the
\* event's title and base branch and still has its summary
C30_EditedAfterSummary ==
  \E x \in 1..Len(prs) :
    /\ Response(18, ValidSig(18), 200) \in responses
    /\ \A j \in 1..Len(jobs) : jobs[j].by = "opened" /\ jobs[j].prId = x
    /\ Len(jobs) = 1
    /\ prs[x].title = Events[18].title
    /\ prs[x].branchTo = "develop"
    /\ prs[x].summaryStatus = "ready"
    /\ prs[x].summary # None
    /\ prs[x].riskScore > 0

(***************************************************************************)
(* C31                                                                     *)
(***************************************************************************)
\* C31: whenever a PullRequest with the event's (repoId, number) is stored,
\* under whatever installationId, the synchronize/edited upsert updates that
\* document and goes on to the 200: it inserts nothing and is not refused.
C31_UpsertByUniqueKey ==
  [][\A r \in 1..Len(reqs) :
       LET e == Events[reqs[r].ev]
           k == FindByRepoNumber(prs, e.repoId, e.number)
       IN (SyncUpserted(r) /\ k # 0) =>
            /\ SyncEnqueues(r) \/ AnsweredWith(r, 200)
            /\ Len(prs') = Len(prs)
            /\ prs'[k].title = e.title]_vars

(***************************************************************************)
(* C32                                                                     *)
(***************************************************************************)
\* the findOneAndUpdate of handlePRReopened for request r matched a PR
ReopenedUpdates(r) ==
  /\ reqs[r].pc = "reopened"
  /\ Len(reqs') = Len(reqs)
  /\ reqs'[r].pc = "reopened.enqueue"

\* handlePRReopened for request r adds its job and answers
ReopenedAnswers(r) == reqs[r].pc = "reopened.enqueue" /\ reqs' = Remove(reqs, r)

\* C32: a reopened event for a stored PR sets status open, summaryStatus
\* pending and summaryError null and keeps the summary; it enqueues exactly one
\* 'generate' job; and the worker never skips a job that reopened enqueued.
C32_ReopenedIsSummarizedAgain ==
  [][/\ \A r \in 1..Len(reqs) :
          LET e == Events[reqs[r].ev]
              x == FindByRepoNumber(prs, e.repoId, e.number)
          IN /\ ReopenedUpdates(r) =>
                  /\ prs'[x].status = "open"
                  /\ prs'[x].summaryStatus = "pending"
                  /\ prs'[x].summaryError = None
                  /\ prs'[x].summary = prs[x].summary
                  /\ jobs' = jobs
             /\ ReopenedAnswers(r) =>
                  /\ jobs' = Append(jobs, GenerateJob("reopened", reqs[r].prId))
                  /\ AnsweredWith(r, 200)
     /\ \A j \in 1..Len(jobs') :
          jobs'[j].by = "reopened" => jobs'[j].outcome # "skipped"]_vars

(***************************************************************************)
(* C33                                                                     *)
(***************************************************************************)
\* handleInstallationCreated for request r takes a step (its read or its create)
CreatedHandlerSteps(r) ==
  /\ reqs[r].pc \in {"inst.created", "inst.create"}
  /\ \/ reqs' = Remove(reqs, r)
     \/ Len(reqs') = Len(reqs) /\ reqs'[r].pc # reqs[r].pc

\* C33: a step of handleInstallationCreated for an installationId that already
\* has an Installation record leaves the collection as it is, and there is
\* never more than one Installation per installationId.
C33_CreatedRedeliveryKeepsRecord ==
  [][/\ \A r \in 1..Len(reqs) :
          (/\ CreatedHandlerSteps(r)
           /\ FindInstallation(installations, Events[reqs[r].ev].installation) # 0)
            => installations' = installations
     /\ \A a, b \in 1..Len(installations') :
          installations'[a].installationId = installations'[b].installationId => a = b]_vars

\* an installation.created delivery was answered 200 for the installation that
\* was already stored: the record and the users' links are as they were
C33_RedeliveredForStoredInstallation ==
  /\ Response(6, ValidSig(6), 200) \in responses
  /\ reqs = <<>>
  /\ Len(installations) = 1
  /\ installations[1].installationId = 1
  /\ users[2].installationIds = <<2, 1>>

(***************************************************************************)
(* C34                                                                     *)
(***************************************************************************)
\* C34: for every analysed file list, large-diff is returned iff additions
\* plus deletions exceed 500 and very-large-diff iff they exceed 1500, and
\* riskScore is the sum of the weights of the returned flags (20, 20, 40, 20,
\* 15, 15), capped at 100; 1600 additions and 50 deletions with no other flag
\* give both diff flags and riskScore 40.
C34_RiskScoreFormula ==
  /\ \A i \in AnalyzedFiles :
       LET total == SumField(FileLists[i], 1, "additions")
                    + SumField(FileLists[i], 1, "deletions")
           flags == Range(analysis[i].riskFlags)
           In(f, w) == IF f \in flags THEN w ELSE 0
       IN /\ ("large-diff" \in flags) <=> (total > 500)
          /\ ("very-large-diff" \in flags) <=> (total > 1500)
          /\ analysis[i].riskScore =
               Min(100, In("large-diff", 20) + In("very-large-diff", 20)
                        + In("secrets-suspected", 40) + In("auth-change", 20)
                        + In("config-change", 15) + In("ci-cd-change", 15))
  /\ \A i \in AnalyzedFiles :
       (/\ SumField(FileLists[i], 1, "additions") = 1600
        /\ SumField(FileLists[i], 1, "deletions") = 50
        /\ Range(analysis[i].riskFlags) \subseteq {"large-diff", "very-large-diff"})
         => /\ Range(analysis[i].riskFlags) = {"large-diff", "very-large-diff"}
            /\ analysis[i].riskScore = 40

\* the worker has stored the analysis of 1600 additions and 50 deletions in
\* a file that raises no other flag
C34_LargeDiffStored ==
  \E p \in 1..Len(prs) :
    /\ prs[p].diffStats.totalAdditions = 1600
    /\ prs[p].diffStats.totalDeletions = 50
    /\ prs[p].riskFlags = <<"large-diff", "very-large-diff">>
    /\ prs[p].riskScore = 40

(***************************************************************************)
(* C35                                                                     *)
(***************************************************************************)
\* the attempt of job j ends at the notification, which it decided to send,
\* without a pr-notify-slack job being added: slackNotifyQueue.add threw
SlackEnqueueFailed(j) ==
  /\ jobs[j].state = "active" /\ jobs[j].pc = "notify"
  /\ ShouldNotifySlack(slackConfig, jobs[j].loaded[1].summaryStatus = "ready",
                       prs[jobs[j].prId])
  /\ jobs'[j] # jobs[j]
  /\ slackJobs' = slackJobs

\* C35: when the pr-notify-slack job cannot be enqueued the attempt still
\* completes (it is not counted as a failed attempt and is not retried) and
\* the PR, with the summary state the attempt saved, is left as it is.
C35_EnqueueFailureDoesNotFailJob ==
  [][\A j \in 1..Len(jobs) :
       SlackEnqueueFailed(j) =>
         /\ jobs'[j].state = "completed"
         /\ jobs'[j].attemptsMade = jobs[j].attemptsMade
         /\ prs' = prs]_vars

\* a job completed after its model call succeeded and made the PR ready with
\* Slack enabled, and no notification job exists: the enqueue failed
C35_CompletedWithoutNotification ==
  /\ slackConfig.enabled
  /\ slackJobs = <<>>
  /\ Len(jobs) = 1
  /\ jobs[1].state = "completed" /\ jobs[1].llm = "ok" /\ jobs[1].attemptsMade = 0
  /\ prs[jobs[1].prId].summaryStatus = "ready"
  /\ prs[jobs[1].prId].summary # None

(***************************************************************************)
(* C36                                                                     *)
(***************************************************************************)
\* C36: no User's installationIds contains the same installation id twice.
C36_NoDuplicateInstallationIds ==
  \A u \in 1..Len(users) :
    \A a, b \in 1..Len(users[u].installationIds) :
      users[u].installationIds[a] = users[u].installationIds[b] => a = b

(***************************************************************************)
(* C37                                                                     *)
(***************************************************************************)
\* the fields a Summary Worker attempt may write; v is Mongoose's __v
WorkerWrittenFields ==
  {"summary", "summaryStatus", "summaryError", "lastSummarizedAt",
   "systemLabels", "riskFlags", "riskScore", "diffStats"}

\* a step of the Summary Worker: a job that exists changes
WorkerSteps == Len(jobs') = Len(jobs) /\ jobs' # jobs

\* C37: a step of a Summary Worker attempt changes no field of any PR other
\* than summary, summaryStatus, summaryError, lastSummarizedAt, systemLabels,
\* riskFlags, riskScore and diffStats: the stored status, title, filesChanged
\* (and every other field a webhook wrote meanwhile) stay as they are.
C37_WorkerWritesOnlyItsFields ==
  [][WorkerSteps =>
       /\ Len(prs') = Len(prs)
       /\ \A p \in 1..Len(prs) :
            \A f \in DOMAIN prs[p] \ (WorkerWrittenFields \cup {"v"}) :
              prs'[p][f] = prs[p][f]]_vars

\* the first attempt of the job that opened enqueued loaded the PR with its
\* first title, and has saved its summary; the edited event was applied
\* between the load and the save (it enqueued a job of its own, so the PR was
\* still pending), and its title and base branch are stored
C37_SavedOverEditedPR ==
  \E j, k \in 1..Len(jobs) :
    /\ jobs[j].by = "opened" /\ jobs[j].pc = "notify" /\ jobs[j].attemptsMade = 0
    /\ jobs[k].by = "edited" /\ jobs[k].state = "waiting" /\ jobs[k].attemptsMade = 0
    /\ jobs[k].prId = jobs[j].prId
    /\ jobs[j].loaded[1].title = Events[1].title
    /\ prs[jobs[j].prId].title = Events[18].title
    /\ prs[jobs[j].prId].branchTo = "develop"
    /\ prs[jobs[j].prId].summaryStatus = "ready"
    /\ prs[jobs[j].prId].summary # None

(***************************************************************************)
(* C38: every PullRequest stored with summaryStatus pending by an opened,  *)
(* synchronize/edited or reopened webhook eventually has summaryStatus     *)
(* ready or error, when the handlers and the workers keep running and      *)
(* every job the queue accepted is delivered                               *)
(***************************************************************************)
SummaryPending(p) == p \in 1..Len(prs) /\ prs[p].summaryStatus = "pending"

SummarySettled(p) == p \in 1..Len(prs) /\ prs[p].summaryStatus \in {"ready", "error"}

C38_PendingIsEventuallySettled ==
  \A p \in 1..MaxDeliveries : SummaryPending(p) ~> SummarySettled(p)

\* a PR is stored pending, no handler is running and no job exists for it
C38_PendingWithoutJob ==
  \E p \in 1..Len(prs) :
    /\ prs[p].summaryStatus = "pending"
    /\ reqs = <<>>
    /\ \A j \in 1..Len(jobs) : jobs[j].prId # p

(***************************************************************************)
(* C40: handling an installation_repositories.added delivery whose event   *)
(* was already handled leaves Installation.repositories as it was, and no  *)
(* Installation lists the same repoId twice, whatever added and removed    *)
(* events and redeliveries were handled                                    *)
(***************************************************************************)
RepoIdsDistinct(repos) ==
  \A a, b \in 1..Len(repos) : repos[a].repoId = repos[b].repoId => a = b

AddedRedelivered(r) ==
  /\ reqs[r].pc = "repos.added"
  /\ reqs' = Remove(reqs, r)
  /\ Response(reqs[r].ev, reqs[r].sig, 200) \in responses

C40_AddedIsIdempotent ==
  [][ /\ \A r \in 1..Len(reqs) : AddedRedelivered(r) => installations' = installations
      /\ \A x \in 1..Len(installations') :
           RepoIdsDistinct(installations[x].repositories)
             => RepoIdsDistinct(installations'[x].repositories) ]_vars

(***************************************************************************)
(* C39: once installation.deleted for installation i has been handled, no  *)
(* PR listing or detail request answered afterwards returns a PullRequest  *)
(* whose installationId is i, also when the handling of an                 *)
(* installation.created delivery for i was in progress when the deleted    *)
(* event arrived                                                           *)
(***************************************************************************)
DeletedAnswered == \E x \in responses : x.ev = 7 /\ x.status = 200

PRRequestAnswered ==
  /\ Len(apiCalls') = Len(apiCalls) + 1
  /\ apiCalls'[Len(apiCalls')].pc = "done"

C39_NoAccessAfterDeleted ==
  [][ (DeletedAnswered /\ PRRequestAnswered) =>
        LET data == apiCalls'[Len(apiCalls')].loaded
        IN \A k \in 1..Len(data) : data[k].installationId # Events[7].installation ]_vars

====
